---- MODULE Spec2Model ----
(***************************************************************************)
(* AIR-DML front end: Lexer.tokenize, Parser.parse, transformAstToDiagram, *)
(* markForeignKeyColumns, parseAirDML and exportToAirDML, as state         *)
(* machines over the objects' fields.                                      *)
(*                                                                         *)
(* Text is a TLA+ string; the character at 0-indexed offset i of s is      *)
(* SubSeq(s, i + 1, i + 1).  The Japanese message texts of the source are  *)
(* written as short ASCII texts (the module language has no non-ASCII      *)
(* strings).  A string of the module language cannot hold a backquote      *)
(* either: Backtick is the character that stands for it.                   *)
(***************************************************************************)
EXTENDS Integers, Sequences, FiniteSets, TLC

VARIABLES airDmlText, pc, lexer, parser, result, inputDiagram, exported,
          reexported, heap, calls

vars == <<airDmlText, pc, lexer, parser, result, inputDiagram, exported,
          reexported, heap, calls>>

(***************************************************************************)
(* Bounds of the model.                                                    *)
(***************************************************************************)
MaxLen == 4

MaxConstructs == 3

(***************************************************************************)
(* String helpers (JavaScript String methods used by the source).          *)
(***************************************************************************)
CharAt(s, i) == IF i >= 0 /\ i < Len(s) THEN SubSeq(s, i + 1, i + 1) ELSE ""

Slice(s, from, to) == SubSeq(s, from + 1, to)

Backtick == "^"

\* An optional value (`x?: T`, `T | undefined`): None, or Some(v).
None == <<>>

Some(v) == <<v>>

Min(a, b) == IF a <= b THEN a ELSE b

UpperChars == <<"A","B","C","D","E","F","G","H","I","J","K","L","M",
                "N","O","P","Q","R","S","T","U","V","W","X","Y","Z">>

LowerChars == <<"a","b","c","d","e","f","g","h","i","j","k","l","m",
                "n","o","p","q","r","s","t","u","v","w","x","y","z">>

DigitChars == {"0","1","2","3","4","5","6","7","8","9"}

Range(f) == {f[i] : i \in DOMAIN f}

LowerOfChar(ch) ==
  IF \E i \in 1..26 : UpperChars[i] = ch
  THEN LowerChars[CHOOSE i \in 1..26 : UpperChars[i] = ch]
  ELSE ch

RECURSIVE toLowerCase(_)
toLowerCase(s) ==
  IF s = "" THEN "" ELSE LowerOfChar(Head(s)) \o toLowerCase(Tail(s))

IsSpaceChar(ch) == ch \in {" ", "\t", "\n", "\r"}

RECURSIVE trimStart(_)
trimStart(s) ==
  IF s # "" /\ IsSpaceChar(Head(s)) THEN trimStart(Tail(s)) ELSE s

RECURSIVE trimEnd(_)
trimEnd(s) ==
  IF s # "" /\ IsSpaceChar(CharAt(s, Len(s) - 1))
  THEN trimEnd(SubSeq(s, 1, Len(s) - 1))
  ELSE s

trim(s) == trimEnd(trimStart(s))

(***************************************************************************)
(* A JavaScript number is held as the text JavaScript prints for it        *)
(* (`${n}`): parseFloat of a NUMBER token's text -?d+(.d+)? drops leading  *)
(* zeros of the integer part, trailing zeros of the fraction, and the sign *)
(* of zero.  (Exponent notation, beyond 21 digits, is outside the model.)  *)
(***************************************************************************)
RECURSIVE IndexOf(_, _, _)
IndexOf(s, ch, from) ==
  IF from >= Len(s) THEN -1
  ELSE IF CharAt(s, from) = ch THEN from
  ELSE IndexOf(s, ch, from + 1)

RECURSIVE StripLeadingZeros(_)
StripLeadingZeros(s) ==
  IF Len(s) > 1 /\ Head(s) = "0" THEN StripLeadingZeros(Tail(s)) ELSE s

RECURSIVE StripTrailingZeros(_)
StripTrailingZeros(s) ==
  IF s # "" /\ CharAt(s, Len(s) - 1) = "0"
  THEN StripTrailingZeros(SubSeq(s, 1, Len(s) - 1))
  ELSE s

parseFloat(s) ==
  LET neg == s # "" /\ Head(s) = "-"
      body == IF neg THEN Tail(s) ELSE s
      dot == IndexOf(body, ".", 0)
      int == StripLeadingZeros(IF dot < 0 THEN body ELSE Slice(body, 0, dot))
      frac == IF dot < 0 THEN ""
              ELSE StripTrailingZeros(Slice(body, dot + 1, Len(body)))
      mag == IF frac = "" THEN int ELSE int \o "." \o frac
  IN  IF mag = "0" THEN "0" ELSE IF neg THEN "-" \o mag ELSE mag

(***************************************************************************)
(* tokens.ts: KEYWORDS and matchKeyword.                                   *)
(***************************************************************************)
KEYWORDS ==
  ("project" :> "PROJECT") @@ ("table" :> "TABLE") @@ ("area" :> "AREA") @@
  ("ref" :> "REF") @@ ("note" :> "NOTE") @@ ("indexes" :> "INDEXES") @@
  ("commoncolumns" :> "COMMON_COLUMNS") @@
  ("pk" :> "PK") @@ ("fk" :> "FK") @@ ("unique" :> "UNIQUE") @@
  ("not" :> "NOT") @@ ("null" :> "NULL") @@ ("increment" :> "INCREMENT") @@
  ("default" :> "DEFAULT") @@
  ("alias" :> "ALIAS") @@ ("pos_x" :> "POS_X") @@ ("pos_y" :> "POS_Y") @@
  ("width" :> "WIDTH") @@ ("height" :> "HEIGHT") @@ ("color" :> "COLOR") @@
  ("swap_edge" :> "SWAP_EDGE") @@ ("swapedge" :> "SWAP_EDGE") @@
  ("database_type" :> "DATABASE_TYPE") @@
  ("labelhorizontal" :> "LABEL_HORIZONTAL") @@
  ("label_horizontal" :> "LABEL_HORIZONTAL") @@
  ("labelvertical" :> "LABEL_VERTICAL") @@
  ("label_vertical" :> "LABEL_VERTICAL") @@
  ("name" :> "NAME")

matchKeyword(value) ==
  LET lower == toLowerCase(value)
  IN  IF lower \in DOMAIN KEYWORDS THEN KEYWORDS[lower] ELSE "IDENTIFIER"

(***************************************************************************)
(* lexer.ts: class Lexer.  A lexer value L is the record of the object's   *)
(* fields [source, pos, line, column, tokens] plus `thrown`, the           *)
(* LexerError in flight (NoError when none).                               *)
(***************************************************************************)
NoError == [kind |-> "none"]

LexerError(message, position, source) ==
  [kind |-> "LexerError", message |-> message, position |-> position,
   source |-> source]

NewLexer(source) ==
  [source |-> source, pos |-> 0, line |-> 1, column |-> 1, tokens |-> <<>>,
   thrown |-> NoError]

LexIsAtEnd(L) == L.pos >= Len(L.source)

LexPeek(L) == IF LexIsAtEnd(L) THEN "" ELSE CharAt(L.source, L.pos)

LexPeekNext(L) ==
  IF L.pos + 1 >= Len(L.source) THEN "" ELSE CharAt(L.source, L.pos + 1)

LexAdvance(L) == [L EXCEPT !.pos = @ + 1, !.column = @ + 1]

LexCurrentPosition(L) ==
  [line |-> L.line, column |-> L.column, offset |-> L.pos]

\* addToken with the end of the token taken one character too far.
addTokenEndsLate(L, type, value, start) ==
  [L EXCEPT !.tokens = Append(@, [type |-> type, value |-> value,
                                  start |-> start,
                                  end |-> [LexCurrentPosition(L) EXCEPT
                                             !.offset = @ + 1]])]

addToken(L, type, value, start) ==
  [L EXCEPT !.tokens = Append(@, [type |-> type, value |-> value,
                                  start |-> start,
                                  end |-> LexCurrentPosition(L)])]

isDigit(ch) == ch \in DigitChars

isIdentifierStart(ch) ==
  ch \in Range(UpperChars) \/ ch \in Range(LowerChars) \/ ch = "_"

isIdentifierPart(ch) == isIdentifierStart(ch) \/ isDigit(ch)

isHexDigit(ch) ==
  \/ isDigit(ch)
  \/ ch \in {"A","B","C","D","E","F"}
  \/ ch \in {"a","b","c","d","e","f"}

RECURSIVE skipWhitespace(_)
skipWhitespace(L) ==
  IF LexIsAtEnd(L) THEN L
  ELSE LET ch == LexPeek(L)
       IN  IF ch \in {" ", "\t", "\r"} THEN skipWhitespace(LexAdvance(L))
           ELSE IF ch = "\n"
           THEN skipWhitespace([LexAdvance(L) EXCEPT !.line = @ + 1,
                                                     !.column = 1])
           ELSE L

\* The loops `while (!isAtEnd() && <test>(peek())) value += advance()` of
\* scanLineComment, scanNumber, scanIdentifier and scanColorLiteral.
LoopTest(test, ch) ==
  CASE test = "notNewline" -> ch # "\n"
    [] test = "isDigit" -> isDigit(ch)
    [] test = "isIdentifierPart" -> isIdentifierPart(ch)
    [] test = "isHexDigit" -> isHexDigit(ch)

RECURSIVE ScanWhile(_, _, _)
ScanWhile(L, value, test) ==
  IF ~LexIsAtEnd(L) /\ LoopTest(test, LexPeek(L))
  THEN ScanWhile(LexAdvance(L), value \o LexPeek(L), test)
  ELSE [L |-> L, value |-> value]

scanLineComment(L) ==
  LET start == LexCurrentPosition(L)
      r == ScanWhile(LexAdvance(LexAdvance(L)), "", "notNewline")
  IN  addToken(r.L, "LINE_COMMENT", trim(r.value), start)

\* The escape handling of scanString, were every escaped character kept as
\* it is.
UnescapeVerbatim(escaped) == escaped

Unescape(escaped) ==
  CASE escaped = "n" -> "\n"
    [] escaped = "t" -> "\t"
    [] escaped = "r" -> "\r"
    [] OTHER -> escaped

RECURSIVE ScanStringLoop(_, _, _)
ScanStringLoop(L, quote, value) ==
  IF LexIsAtEnd(L) \/ LexPeek(L) = quote THEN [L |-> L, value |-> value]
  ELSE IF LexPeek(L) = "\n"
  THEN ScanStringLoop(LexAdvance([L EXCEPT !.line = @ + 1, !.column = 1]),
                      quote, value \o "\n")
  ELSE IF LexPeek(L) = "\\"
  THEN LET L1 == LexAdvance(L)
       IN  IF ~LexIsAtEnd(L1)
           THEN ScanStringLoop(LexAdvance(L1), quote,
                               value \o Unescape(LexPeek(L1)))
           ELSE ScanStringLoop(L1, quote, value)
  ELSE ScanStringLoop(LexAdvance(L), quote, value \o LexPeek(L))

scanString(L, quote, tokenType) ==
  LET start == LexCurrentPosition(L)
      r == ScanStringLoop(LexAdvance(L), quote, "")
  IN  IF LexIsAtEnd(r.L)
      THEN [r.L EXCEPT !.thrown =
              LexerError("unterminated string", start,
                    Some(Slice(L.source, start.offset,
                               Min(start.offset + 20, Len(L.source)))))]
      ELSE addToken(LexAdvance(r.L), tokenType, r.value, start)

scanNumber(L) ==
  LET start == LexCurrentPosition(L)
      s == IF LexPeek(L) = "-" THEN [L |-> LexAdvance(L), value |-> "-"]
           ELSE [L |-> L, value |-> ""]
      i == ScanWhile(s.L, s.value, "isDigit")
      d == IF LexPeek(i.L) = "." /\ isDigit(LexPeekNext(i.L))
           THEN ScanWhile(LexAdvance(i.L), i.value \o ".", "isDigit")
           ELSE i
  IN  addToken(d.L, "NUMBER", d.value, start)

scanIdentifier(L) ==
  LET start == LexCurrentPosition(L)
      r == ScanWhile(L, "", "isIdentifierPart")
  IN  addToken(r.L, matchKeyword(r.value), r.value, start)

scanColorLiteral(L, start) ==
  LET r == ScanWhile(L, "#", "isHexDigit")
  IN  IF Len(r.value) # 4 /\ Len(r.value) # 7
      THEN [r.L EXCEPT !.thrown =
              LexerError("invalid color format: '" \o r.value \o "'", start,
                         None)]
      ELSE addToken(r.L, "STRING", r.value, start)

SymbolTypes ==
  ("{" :> "LBRACE") @@ ("}" :> "RBRACE") @@ ("[" :> "LBRACKET") @@
  ("]" :> "RBRACKET") @@ ("(" :> "LPAREN") @@ (")" :> "RPAREN") @@
  (":" :> "COLON") @@ ("," :> "COMMA") @@ ("." :> "DOT") @@
  (">" :> "REF_GT") @@ ("~" :> "REF_TILDE")

scanSymbol(L) ==
  LET start == LexCurrentPosition(L)
      ch == LexPeek(L)
      L1 == LexAdvance(L)
  IN  IF ch \in DOMAIN SymbolTypes THEN addToken(L1, SymbolTypes[ch], ch, start)
      ELSE IF ch = "<"
      THEN IF LexPeek(L1) = ">"
           THEN addToken(LexAdvance(L1), "REF_LTGT", "<>", start)
           ELSE addToken(L1, "REF_LT", ch, start)
      ELSE IF ch = "-"
      THEN IF isDigit(LexPeek(L1))
           THEN scanNumber([L1 EXCEPT !.pos = @ - 1, !.column = @ - 1])
           ELSE addToken(L1, "REF_DASH", ch, start)
      ELSE IF ch = "#" THEN scanColorLiteral(L1, start)
      ELSE [L1 EXCEPT !.thrown =
              LexerError("unexpected character: '" \o ch \o "'", start,
                         None)]

scanToken(L0) ==
  LET L == skipWhitespace(L0)
      ch == LexPeek(L)
  IN  IF LexIsAtEnd(L) THEN L
      ELSE IF ch = "/" /\ LexPeekNext(L) = "/" THEN scanLineComment(L)
      ELSE IF ch = "\"" THEN scanString(L, "\"", "STRING")
      ELSE IF ch = "'" THEN scanString(L, "'", "SINGLE_STRING")
      ELSE IF ch = Backtick THEN scanString(L, Backtick, "BACKTICK_STRING")
      ELSE IF isDigit(ch) \/ (ch = "-" /\ isDigit(LexPeekNext(L)))
      THEN scanNumber(L)
      ELSE IF isIdentifierStart(ch) THEN scanIdentifier(L)
      ELSE scanSymbol(L)

(***************************************************************************)
(* parser.ts: class Parser.  A parser value P is the record of the         *)
(* object's fields [tokens, pos, errors, pendingComments] plus the control *)
(* state of parse(): `program`, the locals of parseProgram; `stack`, the   *)
(* loops entered and not yet left below parseProgram's loop, innermost     *)
(* last, each with the locals of its function; `mode`; and `thrown`, the   *)
(* ParseError in flight.  After a throw every operation below leaves P as  *)
(* it is, which is how the exception skips the rest of the functions       *)
(* between the throw and the catch in parseProgram.                        *)
(***************************************************************************)
ParseError(message, position, code) ==
  [kind |-> "ParseError", message |-> message, position |-> position,
   code |-> code]

NewParser(tokens) ==
  [tokens |-> tokens, pos |-> 0, errors |-> <<>>, pendingComments |-> <<>>,
   program |-> [start |-> None, project |-> None, tables |-> <<>>,
                refs |-> <<>>, areas |-> <<>>],
   stack |-> <<>>, mode |-> "new", thrown |-> NoError]

Thrown(P) == P.thrown # NoError

peek(P) == P.tokens[P.pos + 1]

peekNext(P) ==
  IF P.pos + 2 <= Len(P.tokens) THEN Some(P.tokens[P.pos + 2]) ELSE None

isAtEnd(P) == peek(P).type = "EOF"

\* advance, were it to step over the EOF token too.
advancePastEnd(P) == IF Thrown(P) THEN P ELSE [P EXCEPT !.pos = @ + 1]

advance(P) ==
  IF Thrown(P) \/ isAtEnd(P) THEN P ELSE [P EXCEPT !.pos = @ + 1]

check(P, type) == peek(P).type = type

currentPosition(P) == peek(P).start

error(P, message, code) ==
  IF Thrown(P) THEN P
  ELSE [P EXCEPT !.thrown = ParseError(message, currentPosition(P), code)]

expect(P, type) ==
  IF check(P, type) THEN advance(P)
  ELSE error(P, "expected " \o type, "UNEXPECTED_TOKEN")

isKeyword(type) ==
  type \in {"PROJECT", "TABLE", "AREA", "REF", "NOTE", "INDEXES", "PK", "FK",
            "UNIQUE", "NOT", "NULL", "INCREMENT", "DEFAULT", "ALIAS", "NAME"}

\* isTopLevelKeyword answering no for every token.
isTopLevelKeywordNever(P) == FALSE

isTopLevelKeyword(P) == peek(P).type \in {"PROJECT", "TABLE", "REF", "AREA"}

isColumnIdentifier(P) ==
  \/ peek(P).type \in {"IDENTIFIER", "STRING"}
  \/ isKeyword(peek(P).type) /\ ~isTopLevelKeyword(P)

isIdentifierLike(P) ==
  peek(P).type \in {"IDENTIFIER", "STRING"} \/ isKeyword(peek(P).type)

\* A parse function that returns a value returns [P, v]; v is "" after a throw.
Ret(P, v) == [P |-> P, v |-> IF Thrown(P) THEN "" ELSE v]

parseIdentifier(P) ==
  IF peek(P).type \in {"IDENTIFIER", "STRING"} \/ isKeyword(peek(P).type)
  THEN Ret(advance(P), peek(P).value)
  ELSE Ret(error(P, "identifier expected", "EXPECTED_IDENTIFIER"), "")

parseNameOrString(P) ==
  IF peek(P).type \in {"STRING", "IDENTIFIER"}
  THEN Ret(advance(P), peek(P).value)
  ELSE Ret(error(P, "name or string expected", "EXPECTED_NAME"), "")

parseStringValue(P) ==
  IF peek(P).type \in {"STRING", "SINGLE_STRING", "BACKTICK_STRING",
                       "IDENTIFIER"}
  THEN Ret(advance(P), peek(P).value)
  ELSE Ret(error(P, "string expected", "EXPECTED_STRING"), "")

parseNumberValue(P) ==
  IF peek(P).type = "NUMBER" THEN Ret(advance(P), parseFloat(peek(P).value))
  ELSE Ret(error(P, "number expected", "EXPECTED_NUMBER"), "")

parseBooleanValue(P) ==
  IF Thrown(P) THEN [P |-> P, v |-> FALSE]
  ELSE IF peek(P).type = "IDENTIFIER"
  THEN [P |-> advance(P), v |-> toLowerCase(peek(P).value) = "true"]
  ELSE IF peek(P).type = "NUMBER"
  THEN [P |-> advance(P), v |-> peek(P).value # "0"]
  ELSE [P |-> advance(P), v |-> FALSE]

parseDefaultValue(P) ==
  LET token == peek(P)
      value == CASE token.type = "SINGLE_STRING" -> "'" \o token.value \o "'"
                 [] token.type = "STRING" -> "\"" \o token.value \o "\""
                 [] token.type = "BACKTICK_STRING" ->
                      Backtick \o token.value \o Backtick
                 [] OTHER -> token.value
      type == CASE token.type \in {"SINGLE_STRING", "STRING"} -> "string"
                [] token.type = "BACKTICK_STRING" -> "function"
                [] OTHER -> "value"
  IN  [P |-> advance(P), value |-> value, type |-> type]

parseRelationType(P) ==
  CASE check(P, "REF_GT") -> Ret(advance(P), ">")
    [] check(P, "REF_LT") -> Ret(advance(P), "<")
    [] check(P, "REF_LTGT") -> Ret(advance(P), "<>")
    [] check(P, "REF_DASH") -> Ret(advance(P), "-")
    [] check(P, "REF_TILDE") -> Ret(advance(P), "~")
    [] OTHER -> Ret(error(P, "relation operator expected",
                          "EXPECTED_REF_OPERATOR"), ">")

parseRefEndpoint(P) ==
  LET t == parseIdentifier(P)
      c == parseIdentifier(expect(t.P, "DOT"))
  IN  [P |-> c.P, v |-> [table |-> t.v, column |-> c.v]]

parseInlineNote(P) == parseStringValue(expect(expect(P, "NOTE"), "COLON"))

RECURSIVE collectComments(_)
collectComments(P) ==
  IF ~Thrown(P) /\ check(P, "LINE_COMMENT")
  THEN collectComments([advance(P) EXCEPT
                          !.pendingComments = Append(@, peek(P).value)])
  ELSE P

consumePendingComments(P) ==
  IF Thrown(P) THEN [P |-> P, v |-> <<>>]
  ELSE [P |-> [P EXCEPT !.pendingComments = <<>>], v |-> P.pendingComments]

\* attachComments(node): the node with its leadingComments, and the parser.
attachComments(P, node) ==
  IF ~Thrown(P) /\ Len(P.pendingComments) > 0
  THEN [P |-> [P EXCEPT !.pendingComments = <<>>],
        v |-> [node EXCEPT !.leadingComments = Some(P.pendingComments)]]
  ELSE [P |-> P, v |-> node]

\* `if (leadingComments.length > 0) node.leadingComments = leadingComments`.
WithLeading(node, leadingComments) ==
  IF Len(leadingComments) > 0
  THEN [node EXCEPT !.leadingComments = Some(leadingComments)]
  ELSE node

Top(P) == P.stack[Len(P.stack)]

Push(P, frame) == [P EXCEPT !.stack = Append(@, frame)]

Pop(P) == [P EXCEPT !.stack = SubSeq(@, 1, Len(@) - 1)]

SetTop(P, frame) == [P EXCEPT !.stack[Len(P.stack)] = frame]

(***************************************************************************)
(* Column: parseColumn, parseColumnType, parseColumnConstraints.  A column *)
(* is parsed inside the loop of parseTableBody or parseCommonColumns (the  *)
(* frame on top of the stack when it begins and when it is finished).      *)
(***************************************************************************)
EmptyColumnConstraints ==
  [pk |-> None, fk |-> None, unique |-> None, notNull |-> None,
   increment |-> None, default |-> None, defaultType |-> None,
   alias |-> None, note |-> None]

\* The return of parseColumn and what its caller does with the node:
\* parseTableBody sets the comments it consumed before the call,
\* parseCommonColumns calls attachComments.
FinishColumn(P, col) ==
  IF Thrown(P) THEN P
  ELSE LET node == [kind |-> "Column", start |-> col.start,
                    end |-> currentPosition(P), name |-> col.name,
                    type |-> col.type, typeParams |-> col.typeParams,
                    constraints |-> col.constraints,
                    leadingComments |-> None]
           parent == Top(P)
       IN  IF parent.fn = "TableBody"
           THEN SetTop(P, [parent EXCEPT !.columns =
                             Append(@, WithLeading(node, col.lead))])
           ELSE LET a == attachComments(P, node)
                IN  SetTop(a.P, [parent EXCEPT !.columns = Append(@, a.v)])

\* parseColumnConstraints up to its loop.
BeginColumnConstraints(P, col) ==
  IF ~check(P, "LBRACKET") THEN FinishColumn(P, col)
  ELSE Push(advance(P), [fn |-> "ColumnConstraints", column |-> col])

\* parseColumn and parseColumnType up to the loop over the type parameters.
BeginColumn(P, lead) ==
  LET start == currentPosition(P)
      n == parseIdentifier(P)
      t == parseIdentifier(n.P)
      col == [start |-> start, name |-> n.v, type |-> t.v,
              typeParams |-> None, constraints |-> EmptyColumnConstraints,
              lead |-> lead]
  IN  IF check(t.P, "LPAREN")
      THEN Push(advance(t.P), [fn |-> "TypeParams", column |-> col,
                               params |-> ""])
      ELSE BeginColumnConstraints(t.P, col)

\* One test of `while (!check(RPAREN) && !isAtEnd())` in parseColumnType and
\* the iteration or the exit that follows.
TypeParamsIter(P) ==
  LET f == Top(P)
  IN  IF ~check(P, "RPAREN") /\ ~isAtEnd(P)
      THEN SetTop(advance(P), [f EXCEPT !.params = @ \o peek(P).value])
      ELSE BeginColumnConstraints(
             Pop(expect(P, "RPAREN")),
             [f.column EXCEPT !.typeParams = Some(f.params)])

\* One test of the loop of parseColumnConstraints and what follows.
ColumnConstraintsIter(P) ==
  LET f == Top(P)
      c == f.column.constraints
      Set(P1, c1) == SetTop(P1, [f EXCEPT !.column.constraints = c1])
  IN  IF ~check(P, "RBRACKET") /\ ~isAtEnd(P)
      THEN CASE check(P, "PK") ->
                  Set(advance(P), [c EXCEPT !.pk = Some(TRUE)])
             [] check(P, "FK") ->
                  Set(advance(P), [c EXCEPT !.fk = Some(TRUE)])
             [] check(P, "UNIQUE") ->
                  Set(advance(P), [c EXCEPT !.unique = Some(TRUE)])
             [] check(P, "NOT") ->
                  LET P1 == advance(P)
                  IN  Set(IF check(P1, "NULL") THEN advance(P1) ELSE P1,
                          [c EXCEPT !.notNull = Some(TRUE)])
             [] check(P, "NULL") -> advance(P)
             [] check(P, "INCREMENT") ->
                  Set(advance(P), [c EXCEPT !.increment = Some(TRUE)])
             [] check(P, "DEFAULT") ->
                  LET P1 == expect(advance(P), "COLON")
                      d == parseDefaultValue(P1)
                  IN  Set(d.P, [c EXCEPT !.default = Some(d.value),
                                         !.defaultType = Some(d.type)])
             [] check(P, "ALIAS") ->
                  LET r == parseStringValue(expect(advance(P), "COLON"))
                  IN  Set(r.P, [c EXCEPT !.alias = Some(r.v)])
             [] check(P, "NOTE") ->
                  LET r == parseStringValue(expect(advance(P), "COLON"))
                  IN  Set(r.P, [c EXCEPT !.note = Some(r.v)])
             [] OTHER -> advance(P)
      ELSE FinishColumn(Pop(expect(P, "RBRACKET")), f.column)

(***************************************************************************)
(* Table: parseTable, parseTableSettings, parseTableBody.                  *)
(***************************************************************************)
EmptyTableSettings ==
  [alias |-> None, posX |-> None, posY |-> None, color |-> None]

\* parseTableBody up to its loop.
BeginTableBody(P, table, settings) ==
  Push(expect(P, "LBRACE"),
       [fn |-> "TableBody", table |-> table, settings |-> settings,
        columns |-> <<>>, indexes |-> <<>>, note |-> None])

\* parseTable up to the loop of parseTableSettings (or of parseTableBody).
BeginTable(P, leadingComments) ==
  LET start == currentPosition(P)
      n == parseIdentifier(expect(P, "TABLE"))
      table == [start |-> start, name |-> n.v,
                leadingComments |-> leadingComments]
  IN  IF ~check(n.P, "LBRACKET")
      THEN BeginTableBody(n.P, table, EmptyTableSettings)
      ELSE Push(advance(n.P), [fn |-> "TableSettings", table |-> table,
                               settings |-> EmptyTableSettings])

TableSettingsIter(P) ==
  LET f == Top(P)
      Set(r, s1) == SetTop(r.P, [f EXCEPT !.settings = s1])
      Value(P1) == parseStringValue(expect(advance(P1), "COLON"))
      Number(P1) == parseNumberValue(expect(advance(P1), "COLON"))
  IN  IF ~check(P, "RBRACKET") /\ ~isAtEnd(P)
      THEN CASE check(P, "ALIAS") ->
                  Set(Value(P), [f.settings EXCEPT !.alias = Some(Value(P).v)])
             [] check(P, "POS_X") ->
                  Set(Number(P), [f.settings EXCEPT !.posX = Some(Number(P).v)])
             [] check(P, "POS_Y") ->
                  Set(Number(P), [f.settings EXCEPT !.posY = Some(Number(P).v)])
             [] check(P, "COLOR") ->
                  Set(Value(P), [f.settings EXCEPT !.color = Some(Value(P).v)])
             [] OTHER -> advance(P)
      ELSE BeginTableBody(Pop(expect(P, "RBRACKET")), f.table, f.settings)

\* The return of parseTableBody and of parseTable, and tables.push(table).
FinishTable(P, f) ==
  LET node == [kind |-> "Table", start |-> f.table.start,
               end |-> currentPosition(P), name |-> f.table.name,
               columns |-> f.columns,
               indexes |-> IF Len(f.indexes) > 0 THEN Some(f.indexes)
                           ELSE None,
               settings |-> f.settings, note |-> f.note,
               leadingComments |-> None]
  IN  [P EXCEPT !.program.tables =
         Append(@, WithLeading(node, f.table.leadingComments))]

(***************************************************************************)
(* Indexes: parseIndexes, parseIndex, parseIndexSettings.                  *)
(***************************************************************************)
EmptyIndexSettings == [unique |-> None, pk |-> None, name |-> None]

\* parseIndexes up to its loop.
BeginIndexes(P) ==
  Push(expect(expect(P, "INDEXES"), "LBRACE"),
       [fn |-> "Indexes", indexes |-> <<>>])

\* The return of parseIndex, then attachComments(index); indexes.push(index).
FinishIndex(P, index, settings) ==
  IF Thrown(P) THEN P
  ELSE LET node == [kind |-> "Index", start |-> index.start,
                    end |-> currentPosition(P), columns |-> index.columns,
                    settings |-> settings, leadingComments |-> None]
           a == attachComments(P, node)
       IN  SetTop(a.P, [Top(P) EXCEPT !.indexes = Append(@, a.v)])

\* parseIndexSettings up to its loop.
BeginIndexSettings(P, index) ==
  IF ~check(P, "LBRACKET") THEN FinishIndex(P, index, EmptyIndexSettings)
  ELSE Push(advance(P), [fn |-> "IndexSettings", index |-> index,
                         settings |-> EmptyIndexSettings])

\* parseIndex up to the loop over a composite index's columns.
BeginIndex(P) ==
  LET start == currentPosition(P)
  IN  IF check(P, "LPAREN")
      THEN Push(advance(P), [fn |-> "IndexColumns",
                             index |-> [start |-> start, columns |-> <<>>]])
      ELSE LET c == parseIdentifier(P)
           IN  BeginIndexSettings(c.P, [start |-> start, columns |-> <<c.v>>])

\* One test of `while (!check(RPAREN) && !isAtEnd())` in parseIndex and the
\* iteration or the exit that follows.
IndexColumnsIter(P) ==
  LET f == Top(P)
  IN  IF ~check(P, "RPAREN") /\ ~isAtEnd(P)
      THEN LET c == IF isIdentifierLike(P) THEN parseIdentifier(P)
                    ELSE [P |-> P, v |-> ""]
               P1 == IF isIdentifierLike(P)
                     THEN SetTop(c.P, [f EXCEPT !.index.columns =
                                         Append(@, c.v)])
                     ELSE P
           IN  IF check(P1, "COMMA") THEN advance(P1) ELSE P1
      ELSE BeginIndexSettings(Pop(expect(P, "RPAREN")), f.index)

IndexSettingsIter(P) ==
  LET f == Top(P)
  IN  IF ~check(P, "RBRACKET") /\ ~isAtEnd(P)
      THEN CASE check(P, "UNIQUE") ->
                  SetTop(advance(P), [f EXCEPT !.settings.unique = Some(TRUE)])
             [] check(P, "PK") ->
                  SetTop(advance(P), [f EXCEPT !.settings.pk = Some(TRUE)])
             [] check(P, "NAME") ->
                  LET r == parseStringValue(expect(advance(P), "COLON"))
                  IN  SetTop(r.P, [f EXCEPT !.settings.name = Some(r.v)])
             [] OTHER -> advance(P)
      ELSE FinishIndex(Pop(expect(P, "RBRACKET")), f.index, f.settings)

\* One test of the loop of parseIndexes and what follows; on exit the
\* caller, parseTableBody, does indexes.push(...parsedIndexes).
IndexesIter(P) ==
  LET f == Top(P)
      P1 == collectComments(P)
      Exit(P2) ==
        LET P3 == Pop(expect(P2, "RBRACE"))
        IN  IF Thrown(P3) THEN P3
            ELSE SetTop(P3, [Top(P3) EXCEPT !.indexes = @ \o f.indexes])
  IN  IF ~check(P, "RBRACE") /\ ~isAtEnd(P)
      THEN IF check(P1, "RBRACE") THEN Exit(P1)
           ELSE IF check(P1, "LPAREN") \/ isIdentifierLike(P1)
           THEN BeginIndex(P1)
           ELSE advance(P1)
      ELSE Exit(P)

\* One test of the loop of parseTableBody and what follows.
TableBodyIter(P) ==
  LET f == Top(P)
      P1 == collectComments(P)
      Exit(P2) ==
        FinishTable(Pop(IF check(P2, "RBRACE") THEN advance(P2) ELSE P2), f)
  IN  IF ~check(P, "RBRACE") /\ ~isAtEnd(P)
      THEN IF check(P1, "RBRACE") THEN Exit(P1)
           ELSE IF isTopLevelKeyword(P1)
           THEN error(P1, "table definition is not closed", "UNCLOSED_TABLE")
           ELSE IF check(P1, "INDEXES") THEN BeginIndexes(P1)
           ELSE IF check(P1, "NOTE")
           THEN LET r == parseInlineNote(P1)
                IN  SetTop(r.P, [f EXCEPT !.note = Some(r.v)])
           ELSE IF isColumnIdentifier(P1)
           THEN LET c == consumePendingComments(P1)
                IN  BeginColumn(c.P, c.v)
           ELSE advance(P1)
      ELSE Exit(P)

(***************************************************************************)
(* Ref: parseRef, parseRefSettings.                                        *)
(***************************************************************************)
EmptyRefSettings == [swapEdge |-> None, note |-> None]

\* The return of parseRef, and refs.push(ref).
FinishRef(P, ref, settings) ==
  LET node == [kind |-> "Ref", start |-> ref.start,
               end |-> currentPosition(P), name |-> ref.name,
               from |-> ref.from, to |-> ref.to,
               relationType |-> ref.relationType, settings |-> settings,
               leadingComments |-> None]
  IN  [P EXCEPT !.program.refs =
         Append(@, WithLeading(node, ref.leadingComments))]

\* parseRef up to the loop of parseRefSettings.
BeginRef(P, leadingComments) ==
  LET start == currentPosition(P)
      P1 == expect(P, "REF")
      named == check(P1, "IDENTIFIER") /\ peekNext(P1) # None
               /\ peekNext(P1)[1].type = "COLON"
      n == IF named THEN parseIdentifier(P1) ELSE [P |-> P1, v |-> ""]
      from == parseRefEndpoint(expect(n.P, "COLON"))
      rel == parseRelationType(from.P)
      to == parseRefEndpoint(rel.P)
      ref == [start |-> start, name |-> IF named THEN Some(n.v) ELSE None,
              from |-> from.v, to |-> to.v, relationType |-> rel.v,
              leadingComments |-> leadingComments]
  IN  IF ~check(to.P, "LBRACKET") THEN FinishRef(to.P, ref, EmptyRefSettings)
      ELSE Push(advance(to.P), [fn |-> "RefSettings", ref |-> ref,
                                settings |-> EmptyRefSettings])

\* parseRefSettings, were it to read the value of an unknown key as the note.
RefSettingsIterUnknownAsNote(P) ==
  LET f == Top(P)
  IN  IF ~check(P, "RBRACKET") /\ ~isAtEnd(P)
      THEN CASE check(P, "SWAP_EDGE") ->
                  LET r == parseBooleanValue(expect(advance(P), "COLON"))
                  IN  SetTop(r.P, [f EXCEPT !.settings.swapEdge = Some(r.v)])
             [] check(P, "NOTE") \/ check(P, "IDENTIFIER") ->
                  LET r == parseStringValue(expect(advance(P), "COLON"))
                  IN  SetTop(r.P, [f EXCEPT !.settings.note = Some(r.v)])
             [] OTHER -> advance(P)
      ELSE FinishRef(Pop(expect(P, "RBRACKET")), f.ref, f.settings)

RefSettingsIter(P) ==
  LET f == Top(P)
  IN  IF ~check(P, "RBRACKET") /\ ~isAtEnd(P)
      THEN CASE check(P, "SWAP_EDGE") ->
                  LET r == parseBooleanValue(expect(advance(P), "COLON"))
                  IN  SetTop(r.P, [f EXCEPT !.settings.swapEdge = Some(r.v)])
             [] check(P, "NOTE") ->
                  LET r == parseStringValue(expect(advance(P), "COLON"))
                  IN  SetTop(r.P, [f EXCEPT !.settings.note = Some(r.v)])
             [] OTHER -> advance(P)
      ELSE FinishRef(Pop(expect(P, "RBRACKET")), f.ref, f.settings)

(***************************************************************************)
(* Area: parseArea, parseAreaSettings, parseAreaBody, parseCommonColumns.  *)
(***************************************************************************)
EmptyAreaSettings ==
  [posX |-> None, posY |-> None, width |-> None, height |-> None,
   color |-> None, databaseType |-> None, labelHorizontal |-> None,
   labelVertical |-> None]

\* parseAreaBody up to its loop.
BeginAreaBody(P, area, settings) ==
  Push(expect(P, "LBRACE"),
       [fn |-> "AreaBody", area |-> area, settings |-> settings,
        tables |-> <<>>, columns |-> <<>>, note |-> None])

\* parseArea up to the loop of parseAreaSettings (or of parseAreaBody).
BeginArea(P, leadingComments) ==
  LET start == currentPosition(P)
      n == parseStringValue(expect(P, "AREA"))
      area == [start |-> start, name |-> n.v,
               leadingComments |-> leadingComments]
  IN  IF ~check(n.P, "LBRACKET")
      THEN BeginAreaBody(n.P, area, EmptyAreaSettings)
      ELSE Push(advance(n.P), [fn |-> "AreaSettings", area |-> area,
                               settings |-> EmptyAreaSettings])

AreaSettingsIter(P) ==
  LET f == Top(P)
      s == f.settings
      Set(r, s1) == SetTop(r.P, [f EXCEPT !.settings = s1])
      Value(P1) == parseStringValue(expect(advance(P1), "COLON"))
      Number(P1) == parseNumberValue(expect(advance(P1), "COLON"))
  IN  IF ~check(P, "RBRACKET") /\ ~isAtEnd(P)
      THEN CASE check(P, "POS_X") ->
                  Set(Number(P), [s EXCEPT !.posX = Some(Number(P).v)])
             [] check(P, "POS_Y") ->
                  Set(Number(P), [s EXCEPT !.posY = Some(Number(P).v)])
             [] check(P, "WIDTH") ->
                  Set(Number(P), [s EXCEPT !.width = Some(Number(P).v)])
             [] check(P, "HEIGHT") ->
                  Set(Number(P), [s EXCEPT !.height = Some(Number(P).v)])
             [] check(P, "COLOR") ->
                  Set(Value(P), [s EXCEPT !.color = Some(Value(P).v)])
             [] check(P, "DATABASE_TYPE") ->
                  Set(Value(P), [s EXCEPT !.databaseType = Some(Value(P).v)])
             [] check(P, "LABEL_HORIZONTAL") ->
                  Set(Value(P),
                      IF Value(P).v \in {"left", "center", "right"}
                      THEN [s EXCEPT !.labelHorizontal = Some(Value(P).v)]
                      ELSE s)
             [] check(P, "LABEL_VERTICAL") ->
                  Set(Value(P),
                      IF Value(P).v \in {"top", "center", "bottom"}
                      THEN [s EXCEPT !.labelVertical = Some(Value(P).v)]
                      ELSE s)
             [] OTHER -> advance(P)
      ELSE BeginAreaBody(Pop(expect(P, "RBRACKET")), f.area, f.settings)

\* The return of parseAreaBody and of parseArea, and areas.push(area).
FinishArea(P, f) ==
  LET node == [kind |-> "Area", start |-> f.area.start,
               end |-> currentPosition(P), name |-> f.area.name,
               tables |-> f.tables, settings |-> f.settings,
               commonColumns |-> IF Len(f.columns) > 0 THEN Some(f.columns)
                                 ELSE None,
               note |-> f.note, leadingComments |-> None]
  IN  [P EXCEPT !.program.areas =
         Append(@, WithLeading(node, f.area.leadingComments))]

\* parseCommonColumns up to its loop.
BeginCommonColumns(P) ==
  Push(expect(expect(expect(P, "COMMON_COLUMNS"), "COLON"), "LBRACKET"),
       [fn |-> "CommonColumns", columns |-> <<>>])

\* One test of the loop of parseCommonColumns and what follows; on exit the
\* caller, parseAreaBody, does commonColumns.push(...cols).
CommonColumnsIter(P) ==
  LET f == Top(P)
      P1 == collectComments(P)
      Exit(P2) ==
        LET P3 == Pop(expect(P2, "RBRACKET"))
        IN  IF Thrown(P3) THEN P3
            ELSE SetTop(P3, [Top(P3) EXCEPT !.columns = @ \o f.columns])
  IN  IF ~check(P, "RBRACKET") /\ ~isAtEnd(P)
      THEN IF check(P1, "RBRACKET") THEN Exit(P1)
           ELSE IF isIdentifierLike(P1) THEN BeginColumn(P1, <<>>)
           ELSE advance(P1)
      ELSE Exit(P)

\* One test of the loop of parseAreaBody and what follows.
AreaBodyIter(P) ==
  LET f == Top(P)
      P1 == collectComments(P)
      Exit(P2) == FinishArea(Pop(expect(P2, "RBRACE")), f)
  IN  IF ~check(P, "RBRACE") /\ ~isAtEnd(P)
      THEN IF check(P1, "RBRACE") THEN Exit(P1)
           ELSE IF check(P1, "COMMON_COLUMNS") THEN BeginCommonColumns(P1)
           ELSE IF check(P1, "NOTE")
           THEN LET r == parseInlineNote(P1)
                IN  SetTop(r.P, [f EXCEPT !.note = Some(r.v)])
           ELSE IF isIdentifierLike(P1)
           THEN LET r == parseIdentifier(P1)
                IN  SetTop(r.P, [f EXCEPT !.tables = Append(@, r.v)])
           ELSE advance(P1)
      ELSE Exit(P)

(***************************************************************************)
(* Project: parseProject, parseProjectBody.                                *)
(***************************************************************************)
EmptyProjectSettings == [databaseType |-> None, note |-> None]

\* The return of parseProject, and `project = ...` in parseProgram.
FinishProject(P, project, settings) ==
  LET node == [kind |-> "Project", start |-> project.start,
               end |-> currentPosition(P), name |-> project.name,
               settings |-> settings, leadingComments |-> None]
  IN  [P EXCEPT !.program.project =
         Some(WithLeading(node, project.leadingComments))]

\* parseProject up to the loop of parseProjectBody.
BeginProject(P, leadingComments) ==
  LET start == currentPosition(P)
      n == parseNameOrString(expect(P, "PROJECT"))
      project == [start |-> start, name |-> n.v,
                  leadingComments |-> leadingComments]
  IN  IF ~check(n.P, "LBRACE")
      THEN FinishProject(n.P, project, EmptyProjectSettings)
      ELSE Push(advance(n.P), [fn |-> "ProjectBody", project |-> project,
                               settings |-> EmptyProjectSettings])

ProjectBodyIter(P) ==
  LET f == Top(P)
      P1 == collectComments(P)
      Exit(P2) == FinishProject(Pop(expect(P2, "RBRACE")), f.project,
                                f.settings)
      Value(P2) == parseStringValue(expect(advance(P2), "COLON"))
  IN  IF ~check(P, "RBRACE") /\ ~isAtEnd(P)
      THEN IF check(P1, "RBRACE") THEN Exit(P1)
           ELSE IF check(P1, "DATABASE_TYPE")
           THEN SetTop(Value(P1).P, [f EXCEPT !.settings.databaseType =
                                       Some(Value(P1).v)])
           ELSE IF check(P1, "NOTE")
           THEN SetTop(Value(P1).P, [f EXCEPT !.settings.note =
                                       Some(Value(P1).v)])
           ELSE advance(P1)
      ELSE Exit(P)

(***************************************************************************)
(* Program: parse, parseProgram, synchronize.                              *)
(***************************************************************************)
\* parse() up to the loop of parseProgram.
BeginParse(P) ==
  [P EXCEPT !.pos = 0, !.errors = <<>>, !.pendingComments = <<>>,
            !.program = [start |-> Some(P.tokens[1].start), project |-> None,
                         tables |-> <<>>, refs |-> <<>>, areas |-> <<>>],
            !.stack = <<>>, !.mode = "parseProgram", !.thrown = NoError]

\* One test of `while (!this.isAtEnd())` in parseProgram and the iteration
\* (up to the first inner loop) or the return that follows.
ParseProgramIter(P) ==
  LET P1 == collectComments(P)
      c == consumePendingComments(P1)
  IN  IF ~isAtEnd(P) /\ ~isAtEnd(P1)
      THEN CASE check(P1, "PROJECT") -> BeginProject(c.P, c.v)
             [] check(P1, "TABLE") -> BeginTable(c.P, c.v)
             [] check(P1, "REF") -> BeginRef(c.P, c.v)
             [] check(P1, "AREA") -> BeginArea(c.P, c.v)
             [] OTHER -> error(c.P, "unexpected token", "UNEXPECTED_TOKEN")
      ELSE [P1 EXCEPT !.mode = "returned"]

\* The catch clause of parseProgram: `this.errors.push(e)`, then
\* synchronize() is entered.  P0 is the parser before the iteration.
Catch(P0, P1) ==
  IF Thrown(P1)
  THEN [P0 EXCEPT !.pos = P1.pos, !.pendingComments = P1.pendingComments,
                  !.errors = Append(@, P1.thrown), !.stack = <<>>,
                  !.mode = "synchronize"]
  ELSE P1

\* synchronize, were it to return at a closing brace without consuming it.
SynchronizeIterKeepsBrace(P) ==
  IF ~isAtEnd(P)
  THEN IF check(P, "RBRACE") \/ isTopLevelKeyword(P)
       THEN [P EXCEPT !.mode = "parseProgram"]
       ELSE advance(P)
  ELSE [P EXCEPT !.mode = "parseProgram"]

\* One test of `while (!this.isAtEnd())` in synchronize and the iteration or
\* the return that follows.
SynchronizeIter(P) ==
  IF ~isAtEnd(P)
  THEN IF check(P, "RBRACE") THEN [advance(P) EXCEPT !.mode = "parseProgram"]
       ELSE IF isTopLevelKeyword(P) THEN [P EXCEPT !.mode = "parseProgram"]
       ELSE advance(P)
  ELSE [P EXCEPT !.mode = "parseProgram"]

\* The loop the parser is in: the innermost entered loop.
InLoop(P) ==
  IF P.mode = "parseProgram" /\ Len(P.stack) > 0 THEN Top(P).fn ELSE P.mode

\* The next test of the loop the parser is in, and what follows it.
ParserStep(P) ==
  CASE InLoop(P) = "parseProgram" -> Catch(P, ParseProgramIter(P))
    [] InLoop(P) = "synchronize" -> SynchronizeIter(P)
    [] InLoop(P) = "ProjectBody" -> Catch(P, ProjectBodyIter(P))
    [] InLoop(P) = "TableSettings" -> Catch(P, TableSettingsIter(P))
    [] InLoop(P) = "TableBody" -> Catch(P, TableBodyIter(P))
    [] InLoop(P) = "TypeParams" -> Catch(P, TypeParamsIter(P))
    [] InLoop(P) = "ColumnConstraints" -> Catch(P, ColumnConstraintsIter(P))
    [] InLoop(P) = "Indexes" -> Catch(P, IndexesIter(P))
    [] InLoop(P) = "IndexColumns" -> Catch(P, IndexColumnsIter(P))
    [] InLoop(P) = "IndexSettings" -> Catch(P, IndexSettingsIter(P))
    [] InLoop(P) = "RefSettings" -> Catch(P, RefSettingsIter(P))
    [] InLoop(P) = "AreaSettings" -> Catch(P, AreaSettingsIter(P))
    [] InLoop(P) = "AreaBody" -> Catch(P, AreaBodyIter(P))
    [] InLoop(P) = "CommonColumns" -> Catch(P, CommonColumnsIter(P))
    [] OTHER -> P

(***************************************************************************)
(* transformer.ts: transformAstToDiagram.                                  *)
(***************************************************************************)
\* Array.prototype.find: the first element satisfying the test, as an
\* optional index.
RECURSIVE FindIndex(_, _, _)
FindIndex(seq, Test(_), i) ==
  IF i > Len(seq) THEN 0
  ELSE IF Test(seq[i]) THEN i
  ELSE FindIndex(seq, Test, i + 1)

Includes(seq, v) == \E i \in 1..Len(seq) : seq[i] = v

typeMap ==
  ("int" :> "integer") @@ ("integer" :> "integer") @@ ("bigint" :> "bigint") @@
  ("smallint" :> "smallint") @@ ("serial" :> "serial") @@
  ("bigserial" :> "bigserial") @@ ("varchar" :> "varchar") @@
  ("char" :> "char") @@ ("text" :> "text") @@ ("boolean" :> "boolean") @@
  ("bool" :> "boolean") @@ ("date" :> "date") @@ ("time" :> "time") @@
  ("timestamp" :> "timestamp") @@ ("timestamptz" :> "timestamptz") @@
  ("numeric" :> "numeric") @@ ("decimal" :> "decimal") @@ ("real" :> "real") @@
  ("double" :> "double precision") @@ ("json" :> "json") @@
  ("jsonb" :> "jsonb") @@ ("uuid" :> "uuid") @@ ("bytea" :> "bytea")

mapTypeToDataType(type) ==
  LET lowerType == toLowerCase(type)
  IN  IF lowerType \in DOMAIN typeMap THEN typeMap[lowerType] ELSE type

mapRelationTypeDefault(relType) == "many-to-one"

mapRelationType(relType) ==
  CASE relType = ">" -> "many-to-one"
    [] relType = "<" -> "one-to-many"
    [] relType = "-" -> "one-to-one"
    [] relType = "<>" -> "many-to-many"
    [] relType = "~" -> "ai-inferred"
    [] OTHER -> "many-to-one"

\* transformColumn, were it to copy the default of the column node.
transformColumnKeepsDefault(node) ==
  [name |-> node.name, logicalName |-> node.constraints.alias,
   type |-> mapTypeToDataType(node.type), typeParams |-> node.typeParams,
   pk |-> node.constraints.pk, fk |-> node.constraints.fk,
   unique |-> node.constraints.unique, notNull |-> node.constraints.notNull,
   increment |-> node.constraints.increment,
   default |-> node.constraints.default,
   note |-> node.constraints.note, leadingComments |-> node.leadingComments]

transformColumn(node) ==
  [name |-> node.name, logicalName |-> node.constraints.alias,
   type |-> mapTypeToDataType(node.type), typeParams |-> node.typeParams,
   pk |-> node.constraints.pk, fk |-> node.constraints.fk,
   unique |-> node.constraints.unique, notNull |-> node.constraints.notNull,
   increment |-> node.constraints.increment, default |-> None,
   note |-> node.constraints.note, leadingComments |-> node.leadingComments]

Map(seq, F(_)) == [i \in 1..Len(seq) |-> F(seq[i])]

Position(settings) ==
  IF settings.posX # None /\ settings.posY # None
  THEN Some([x |-> settings.posX[1], y |-> settings.posY[1]])
  ELSE None

transformTableNoColumns(node) ==
  [id |-> "table-" \o node.name, name |-> node.name,
   logicalName |-> node.settings.alias,
   columns |-> <<>>,
   color |-> node.settings.color, pos |-> Position(node.settings),
   areaIds |-> <<>>, note |-> node.note,
   leadingComments |-> node.leadingComments]

transformTable(node) ==
  [id |-> "table-" \o node.name, name |-> node.name,
   logicalName |-> node.settings.alias,
   columns |-> Map(node.columns, transformColumn),
   color |-> node.settings.color, pos |-> Position(node.settings),
   areaIds |-> <<>>, note |-> node.note,
   leadingComments |-> node.leadingComments]

transformRef(node) ==
  [id |-> "ref-" \o node.from.table \o "-" \o node.from.column \o "-"
          \o node.to.table \o "-" \o node.to.column,
   fromTable |-> "table-" \o node.from.table,
   fromColumn |-> node.from.column,
   toTable |-> "table-" \o node.to.table,
   toColumn |-> node.to.column,
   type |-> mapRelationType(node.relationType),
   swapEdge |-> node.settings.swapEdge, note |-> node.settings.note,
   leadingComments |-> node.leadingComments]

\* `node.tables.forEach(...)` of transformArea: the tables after the area id
\* was pushed onto the areaIds of the first table of each listed name.
RECURSIVE AssociateTables(_, _, _, _)
AssociateTables(names, i, areaId, tables) ==
  IF i > Len(names) THEN tables
  ELSE LET HasName(t) == t.name = names[i]
           k == FindIndex(tables, HasName, 1)
       IN  AssociateTables(names, i + 1, areaId,
             IF k # 0 /\ ~Includes(tables[k].areaIds, areaId)
             THEN [tables EXCEPT ![k].areaIds = Append(@, areaId)]
             ELSE tables)

\* The table ids of an area that resolves none of its names.
TableIdsUnresolved(names, i, tables) == <<>>

\* `node.tables.map(find ... id).filter(defined)` of transformArea.
RECURSIVE TableIds(_, _, _)
TableIds(names, i, tables) ==
  IF i > Len(names) THEN <<>>
  ELSE LET HasName(t) == t.name = names[i]
           k == FindIndex(tables, HasName, 1)
       IN  (IF k # 0 THEN <<tables[k].id>> ELSE <<>>)
           \o TableIds(names, i + 1, tables)

\* transformArea(node, tables): the Area, and the tables it mutated.
transformArea(node, tables) ==
  LET areaId == "area-" \o node.name
  IN  [tables |-> AssociateTables(node.tables, 1, areaId, tables),
       area |->
         [id |-> areaId, name |-> node.name,
          tables |-> TableIds(node.tables, 1, tables),
          color |-> node.settings.color, pos |-> Position(node.settings),
          width |-> node.settings.width, height |-> node.settings.height,
          labelHorizontal |-> node.settings.labelHorizontal,
          labelVertical |-> node.settings.labelVertical,
          databaseType |-> node.settings.databaseType,
          commonColumns |->
            IF node.commonColumns = None THEN None
            ELSE Some(Map(node.commonColumns[1], transformColumn)),
          note |-> node.note, leadingComments |-> node.leadingComments]]

\* `ast.areas.map(areaNode => transformArea(areaNode, tables))`.
RECURSIVE TransformAreas(_, _, _, _)
TransformAreas(nodes, i, tables, areas) ==
  IF i > Len(nodes) THEN [tables |-> tables, areas |-> areas]
  ELSE LET r == transformArea(nodes[i], tables)
       IN  TransformAreas(nodes, i + 1, r.tables, Append(areas, r.area))

\* `a || b` on strings: b when a is undefined or empty.
OrElse(opt, b) == IF opt # None /\ opt[1] # "" THEN opt[1] ELSE b

\* options: [diagramId, defaultDatabase], both optional; now: the clock.
transformAstToDiagram(ast, options, now) ==
  LET projectName ==
        IF ast.project = None THEN "Untitled Project"
        ELSE OrElse(Some(ast.project[1].name), "Untitled Project")
      defaultDatabase == OrElse(options.defaultDatabase, "PostgreSQL")
      r == TransformAreas(ast.areas, 1, Map(ast.tables, transformTable), <<>>)
  IN  [id |-> OrElse(options.diagramId, "diagram-" \o now),
       name |-> projectName, project |-> Some(projectName),
       database |-> Some(IF ast.project = None THEN defaultDatabase
                         ELSE OrElse(ast.project[1].settings.databaseType,
                                     defaultDatabase)),
       tables |-> r.tables,
       references |-> Map(ast.refs, transformRef),
       areas |-> Some(r.areas),
       note |-> IF ast.project = None THEN None
                ELSE ast.project[1].settings.note,
       createdAt |-> Some(now), updatedAt |-> Some(now)]

(***************************************************************************)
(* index.ts (in lexer.ts, from line 441): markForeignKeyColumns,           *)
(* parseAirDML.                                                            *)
(***************************************************************************)
RECURSIVE MarkFrom(_, _, _)
MarkFrom(references, i, tables) ==
  IF i > Len(references) THEN tables
  ELSE LET ref == references[i]
           IsFrom(t) == t.id = ref.fromTable
           k == FindIndex(tables, IsFrom, 1)
           IsColumn(c) == c.name = ref.fromColumn
           j == IF k = 0 THEN 0 ELSE FindIndex(tables[k].columns, IsColumn, 1)
       IN  MarkFrom(references, i + 1,
                    IF j # 0
                    THEN [tables EXCEPT ![k].columns[j].fk = Some(TRUE)]
                    ELSE tables)

markForeignKeyColumns(diagram) ==
  [diagram EXCEPT !.tables = MarkFrom(diagram.references, 1, @)]

(***************************************************************************)
(* index.ts (in lexer.ts, from line 441): exportToAirDML and its helpers.  *)
(***************************************************************************)
getRelationshipSymbol(relType) ==
  CASE relType = "many-to-one" -> ">"
    [] relType = "one-to-many" -> "<"
    [] relType = "one-to-one" -> "-"
    [] relType = "many-to-many" -> "<>"
    [] relType \in {"any", "ai-inferred"} -> "~"
    [] OTHER -> ">"

\* String.prototype.replace with a one-character global pattern.
RECURSIVE ReplaceAll(_, _, _)
ReplaceAll(str, ch, by) ==
  IF str = "" THEN ""
  ELSE (IF SubSeq(str, 1, 1) = ch THEN by ELSE SubSeq(str, 1, 1))
       \o ReplaceAll(Tail(str), ch, by)

IsWordChar(ch) ==
  ch \in Range(UpperChars) \cup Range(LowerChars) \cup DigitChars
         \cup {"_"}

escapeIdentifier(name) ==
  IF \E i \in 0..(Len(name) - 1) : ~IsWordChar(CharAt(name, i))
  THEN "\"" \o ReplaceAll(name, "\"", "\\\"") \o "\""
  ELSE name

\* str is optional here: `if (!str) return ''`.
escapeString(str) ==
  IF str = None \/ str[1] = "" THEN ""
  ELSE ReplaceAll(ReplaceAll(ReplaceAll(str[1], "\\", "\\\\"),
                             "\"", "\\\""), "\n", "\\n")

AllDigits(str) ==
  str # "" /\ \A i \in 0..(Len(str) - 1) : CharAt(str, i) \in DigitChars

\* /^-?\d+(\.\d+)?$/
LooksNumeric(value) ==
  LET body == IF value # "" /\ CharAt(value, 0) = "-"
              THEN Slice(value, 1, Len(value)) ELSE value
      dot == IndexOf(body, ".", 0)
  IN  IF dot < 0 THEN AllDigits(body)
      ELSE /\ AllDigits(Slice(body, 0, dot))
           /\ AllDigits(Slice(body, dot + 1, Len(body)))

formatDefaultValue(value) ==
  IF IndexOf(value, "(", 0) >= 0 /\ IndexOf(value, ")", 0) >= 0
  THEN Backtick \o value \o Backtick
  ELSE IF LooksNumeric(value) \/ value \in {"true", "false", "null"}
  THEN value
  ELSE "'" \o value \o "'"

\* Array.prototype.join.
RECURSIVE Join(_, _)
Join(parts, sep) ==
  IF parts = <<>> THEN ""
  ELSE IF Len(parts) = 1 THEN parts[1]
  ELSE parts[1] \o sep \o Join(Tail(parts), sep)

\* Truthiness of an optional string, number (printed text) or boolean.
TruthyString(opt) == opt # None /\ opt[1] # ""
TruthyNumber(opt) == opt # None /\ opt[1] \notin {"0", "NaN"}
TruthyBoolean(opt) == opt # None /\ opt[1] = TRUE

RECURSIVE formatComments(_)
formatComments(comments) ==
  IF comments = None \/ comments[1] = <<>> THEN ""
  ELSE "// " \o Head(comments[1]) \o "\n"
       \o formatComments(Some(Tail(comments[1])))

Bracketed(attrs) ==
  IF Len(attrs) > 0 THEN " [" \o Join(attrs, ", ") \o "]" ELSE ""

When(cond, text) == IF cond THEN <<text>> ELSE <<>>

\* The constraint list of a column; withNote is FALSE for CommonColumns,
\* whose export does not write the note.
ExportConstraints(column, withNote) ==
  When(TruthyBoolean(column.pk), "pk")
  \o When(TruthyBoolean(column.fk), "fk")
  \o When(TruthyBoolean(column.unique), "unique")
  \o When(TruthyBoolean(column.notNull), "not null")
  \o When(TruthyBoolean(column.increment), "increment")
  \o (IF TruthyString(column.default)
      THEN <<"default: " \o formatDefaultValue(column.default[1])>>
      ELSE <<>>)
  \o When(TruthyString(column.logicalName),
          "alias: \"" \o escapeString(column.logicalName) \o "\"")
  \o When(withNote /\ TruthyString(column.note),
          "note: \"" \o escapeString(column.note) \o "\"")

ExportColumn(column, indent, withNote) ==
  LET typeStr == IF TruthyString(column.typeParams)
                 THEN column.type \o "(" \o column.typeParams[1] \o ")"
                 ELSE column.type
  IN  indent \o escapeIdentifier(column.name) \o " " \o typeStr
      \o Bracketed(ExportConstraints(column, withNote)) \o "\n"

RECURSIVE ExportColumns(_, _, _, _)
ExportColumns(columns, indent, withNote, withComments) ==
  IF columns = <<>> THEN ""
  ELSE (IF withComments THEN formatComments(Head(columns).leadingComments)
        ELSE "")
       \o ExportColumn(Head(columns), indent, withNote)
       \o ExportColumns(Tail(columns), indent, withNote, withComments)

ExportTable(table) ==
  LET tableAttrs ==
        When(TruthyString(table.logicalName),
             "alias: \"" \o escapeString(table.logicalName) \o "\"")
        \o (IF table.pos # None
            THEN <<"pos_x: " \o table.pos[1].x, "pos_y: " \o table.pos[1].y>>
            ELSE <<>>)
        \o (IF TruthyString(table.color)
            THEN <<"color: \"" \o table.color[1] \o "\"">> ELSE <<>>)
  IN  formatComments(table.leadingComments)
      \o "Table " \o escapeIdentifier(table.name) \o Bracketed(tableAttrs)
      \o " {\n"
      \o ExportColumns(table.columns, "  ", TRUE, TRUE)
      \o (IF TruthyString(table.note)
          THEN "\n  Note: \"" \o escapeString(table.note) \o "\"\n" ELSE "")
      \o "}\n\n"

ExportRef(ref, tables) ==
  LET IsFrom(t) == t.id = ref.fromTable
      IsTo(t) == t.id = ref.toTable
      f == FindIndex(tables, IsFrom, 1)
      t == FindIndex(tables, IsTo, 1)
      refAttrs ==
        When(TruthyBoolean(ref.swapEdge), "swapEdge: true")
        \o When(TruthyString(ref.note),
                "note: \"" \o escapeString(ref.note) \o "\"")
  IN  formatComments(ref.leadingComments)
      \o (IF f # 0 /\ t # 0
          THEN "Ref: " \o escapeIdentifier(tables[f].name) \o "."
               \o escapeIdentifier(ref.fromColumn) \o " "
               \o getRelationshipSymbol(ref.type) \o " "
               \o escapeIdentifier(tables[t].name) \o "."
               \o escapeIdentifier(ref.toColumn) \o Bracketed(refAttrs)
               \o "\n"
          ELSE "")

\* `diagram.tables.filter(areaIds includes area.id).map(escapeIdentifier)`,
\* one line per name.
RECURSIVE TableNamesIn(_, _)
TableNamesIn(tables, areaId) ==
  IF tables = <<>> THEN <<>>
  ELSE (IF Includes(Head(tables).areaIds, areaId)
        THEN <<escapeIdentifier(Head(tables).name)>> ELSE <<>>)
       \o TableNamesIn(Tail(tables), areaId)

RECURSIVE Lines(_, _)
Lines(names, indent) ==
  IF names = <<>> THEN ""
  ELSE indent \o Head(names) \o "\n" \o Lines(Tail(names), indent)

ExportArea(area, tables) ==
  LET tableNames == TableNamesIn(tables, area.id)
      hasCommon == area.commonColumns # None /\ Len(area.commonColumns[1]) > 0
      areaAttrs ==
        (IF area.pos # None
         THEN <<"pos_x: " \o area.pos[1].x, "pos_y: " \o area.pos[1].y>>
         ELSE <<>>)
        \o (IF TruthyNumber(area.width)
            THEN <<"width: " \o area.width[1]>> ELSE <<>>)
        \o (IF TruthyNumber(area.height)
            THEN <<"height: " \o area.height[1]>> ELSE <<>>)
        \o (IF TruthyString(area.color)
            THEN <<"color: \"" \o area.color[1] \o "\"">> ELSE <<>>)
        \o (IF TruthyString(area.labelHorizontal)
            THEN <<"labelHorizontal: \"" \o area.labelHorizontal[1] \o "\"">>
            ELSE <<>>)
        \o (IF TruthyString(area.labelVertical)
            THEN <<"labelVertical: \"" \o area.labelVertical[1] \o "\"">>
            ELSE <<>>)
  IN  formatComments(area.leadingComments)
      \o (IF Len(tableNames) > 0 \/ hasCommon \/ TruthyString(area.note)
          THEN "Area \"" \o escapeString(Some(area.name)) \o "\""
               \o Bracketed(areaAttrs) \o " {\n"
               \o Lines(tableNames, "  ")
               \o (IF TruthyString(area.databaseType)
                   THEN "\n  database_type: \"" \o area.databaseType[1]
                        \o "\"\n"
                   ELSE "")
               \o (IF hasCommon
                   THEN "\n  CommonColumns: [\n"
                        \o ExportColumns(area.commonColumns[1], "    ",
                                         FALSE, FALSE)
                        \o "  ]\n"
                   ELSE "")
               \o (IF TruthyString(area.note)
                   THEN "\n  Note: \"" \o escapeString(area.note) \o "\"\n"
                   ELSE "")
               \o "}\n\n"
          ELSE "")

RECURSIVE ExportTables(_)
ExportTables(tables) ==
  IF tables = <<>> THEN ""
  ELSE ExportTable(Head(tables)) \o ExportTables(Tail(tables))

ExportRefsFirstOnly(references, tables) ==
  IF references = <<>> THEN "" ELSE ExportRef(Head(references), tables)

RECURSIVE ExportRefs(_, _)
ExportRefs(references, tables) ==
  IF references = <<>> THEN ""
  ELSE ExportRef(Head(references), tables)
       \o ExportRefs(Tail(references), tables)

RECURSIVE ExportAreas(_, _)
ExportAreas(areas, tables) ==
  IF areas = <<>> THEN ""
  ELSE ExportArea(Head(areas), tables) \o ExportAreas(Tail(areas), tables)

exportToAirDML(diagram) ==
  LET projectName ==
        IF TruthyString(diagram.project) THEN diagram.project[1]
        ELSE IF diagram.name # "" THEN diagram.name ELSE "Untitled"
  IN  trim(
        "// " \o diagram.name \o "\n"
        \o "Project " \o escapeIdentifier(projectName) \o " {\n"
        \o "  database_type: '"
        \o (IF TruthyString(diagram.database) THEN diagram.database[1]
            ELSE "PostgreSQL") \o "'\n"
        \o (IF TruthyString(diagram.note)
            THEN "  Note: \"" \o escapeString(diagram.note) \o "\"\n"
            ELSE "")
        \o "}\n\n"
        \o ExportTables(diagram.tables)
        \o ExportRefs(diagram.references, diagram.tables)
        \o "\n"
        \o (IF diagram.areas # None /\ Len(diagram.areas[1]) > 0
            THEN ExportAreas(diagram.areas[1], diagram.tables) ELSE ""))

(***************************************************************************)
(* parseAirDML, lexer.ts 467-520, as one function: tokenize() and parse()  *)
(* run to their return.                                                    *)
(***************************************************************************)
\* Lexer.tokenize: the lexer after the loop and the EOF token, or after the
\* throw.
RECURSIVE TokenizeLoop(_)
TokenizeLoop(L) ==
  IF L.thrown # NoError THEN L
  ELSE IF LexIsAtEnd(L) THEN addToken(L, "EOF", "", LexCurrentPosition(L))
  ELSE TokenizeLoop(scanToken(L))

tokenize(source) == TokenizeLoop(NewLexer(source))

\* Parser.parse: the parser at its return, or at the iteration that repeats
\* without change.
RECURSIVE ParseLoop(_)
ParseLoop(P) ==
  IF P.mode = "returned" \/ ParserStep(P) = P THEN P
  ELSE ParseLoop(ParserStep(P))

parse(tokens) == ParseLoop(BeginParse(NewParser(tokens)))

\* `[${position.line}:${position.column}] ${message}`, the message text of
\* LexerError and ParseError.
ErrorMessage(e) ==
  "[" \o ToString(e.position.line) \o ":" \o ToString(e.position.column)
  \o "] " \o e.message

\* The ParseResult of the try block once the parser has returned.
Success(P, options, now) ==
  [success |-> TRUE,
   diagram |->
     Some(markForeignKeyColumns(transformAstToDiagram(P.program, options,
                                                      now))),
   warnings |-> IF Len(P.errors) > 0 THEN Some(Map(P.errors, ErrorMessage))
                ELSE None,
   error |-> None]

\* The ParseResult of the catch block for a LexerError.
Failure(e) ==
  [success |-> FALSE, diagram |-> None, warnings |-> None,
   error |-> Some("lexical error: " \o ErrorMessage(e))]

NoResult == [success |-> "pending"]

parseAirDML(text, options, now) ==
  LET L == tokenize(text)
      P == parse(L.tokens)
  IN  IF L.thrown # NoError THEN Failure(L.thrown)
      ELSE IF P.mode = "returned" THEN Success(P, options, now)
      ELSE NoResult

(***************************************************************************)
(* Inputs.                                                                 *)
(***************************************************************************)
Alphabet ==
  {"a", "1", "\"", "\\", "\n", " ", "#", "/", "-", "@", ".", "<", ">"}

\* Every text of at most n characters over Alphabet.
RECURSIVE Texts(_)
Texts(n) ==
  IF n = 0 THEN {""}
  ELSE LET shorter == Texts(n - 1)
       IN  shorter \cup {t \o c : t \in shorter, c \in Alphabet}

\* Top-level constructs, well-formed and malformed, documents are made of.
Constructs ==
  <<"Table users {\n  id int [pk]\n  name varchar(10,2)\n}",
    "// posts\nTable posts [alias: \"P\"] {\n  id int\n  user_id int\n"
      \o "  indexes {\n    (id, user_id) [unique]\n    user_id\n  }\n}",
    "Table users {\n  name text\n  id int\n  id text\n}",
    "Ref: posts.user_id > users.id [swapEdge: true]",
    "Ref: users.id - posts.id",
    "Project shop {\n  database_type: 'MySQL'\n}",
    "Area \"Core\" [color: \"#fff\"] {\n  users\n  posts\n"
      \o "  CommonColumns: [\n    created timestamp\n  ]\n}",
    "Table broken {\n  id int",
    "Table open {",
    "Ref: a.b >",
    "Table t { indexes { (1) } }",
    "Table s [color: #12] {\n}",
    "stray } tokens">>

RECURSIVE Documents(_)
Documents(n) ==
  IF n = 0 THEN {""}
  ELSE LET shorter == Documents(n - 1)
       IN  shorter \cup {IF d = "" THEN Constructs[i]
                         ELSE d \o "\n" \o Constructs[i] :
                           d \in shorter, i \in 1..Len(Constructs)}

\* TransformOptions and the readings of the clock.
Options ==
  {[diagramId |-> None, defaultDatabase |-> None],
   [diagramId |-> Some("d1"), defaultDatabase |-> Some("MySQL")]}

Clock == {"1000", "2000"}

(***************************************************************************)
(* The state machine of parseAirDML(airDmlText, options).                  *)
(***************************************************************************)
\* The arrays allocated so far, `tokens` and `errors` being the arrays the
\* fields Lexer.tokens and Parser.errors refer to (0: no such object yet).
\* `new Lexer(text)` allocates the array of its field initializer.
NewHeap == [arrays |-> <<<<>>>>, tokens |-> 1, errors |-> 0]

InitWith(text) ==
  /\ airDmlText = text
  /\ pc = "tokenize"
  /\ lexer = NewLexer(text)
  /\ parser = NewParser(<<>>)
  /\ result = NoResult
  /\ inputDiagram = None
  /\ exported = None
  /\ reexported = None
  /\ heap = NewHeap
  /\ calls = <<>>

Init == \E text \in Documents(MaxConstructs) : InitWith(text)

InitLex == \E text \in Texts(MaxLen) : InitWith(text)

\* One iteration of `while (!this.isAtEnd()) this.scanToken()`.
ScanToken ==
  /\ pc = "tokenize"
  /\ lexer.thrown = NoError
  /\ ~LexIsAtEnd(lexer)
  /\ lexer' = scanToken(lexer)
  /\ UNCHANGED <<airDmlText, pc, parser, result, inputDiagram, exported,
                 reexported, heap, calls>>

\* The exit of the loop: the EOF token is added and tokenize returns.
TokenizeReturn ==
  /\ pc = "tokenize"
  /\ lexer.thrown = NoError
  /\ LexIsAtEnd(lexer)
  /\ lexer' = addToken(lexer, "EOF", "", LexCurrentPosition(lexer))
  /\ pc' = "tokenized"
  /\ UNCHANGED <<airDmlText, parser, result, inputDiagram, exported,
                 reexported, heap, calls>>

\* The LexerError reaches the catch block of parseAirDML.
CatchLexerError ==
  /\ pc = "tokenize"
  /\ lexer.thrown # NoError
  /\ result' = Failure(lexer.thrown)
  /\ pc' = "done"
  /\ UNCHANGED <<airDmlText, lexer, parser, inputDiagram, exported,
                 reexported, heap, calls>>

\* `new Parser(tokens)` and the entry of parse() up to the top-level loop.
Parse ==
  /\ pc = "tokenized"
  /\ parser' = BeginParse(NewParser(lexer.tokens))
  /\ pc' = "parse"
  /\ UNCHANGED <<airDmlText, lexer, result, inputDiagram, exported,
                 reexported, heap, calls>>

\* The actions below are one test of the loop the parser is in, with the
\* iteration or the exit that follows; an error thrown inside is caught by
\* parseProgram.

\* The top-level loop of parseProgram, with its catch clause.
ParseProgramLoop ==
  /\ pc = "parse"
  /\ InLoop(parser) = "parseProgram"
  /\ parser' = Catch(parser, ParseProgramIter(parser))
  /\ UNCHANGED <<airDmlText, pc, lexer, result, inputDiagram, exported,
                 reexported, heap, calls>>

\* The loop of synchronize.
SynchronizeLoop ==
  /\ pc = "parse"
  /\ InLoop(parser) = "synchronize"
  /\ parser' = SynchronizeIter(parser)
  /\ UNCHANGED <<airDmlText, pc, lexer, result, inputDiagram, exported,
                 reexported, heap, calls>>

\* The loop of parseProjectBody.
ProjectBodyLoop ==
  /\ pc = "parse"
  /\ InLoop(parser) = "ProjectBody"
  /\ parser' = Catch(parser, ProjectBodyIter(parser))
  /\ UNCHANGED <<airDmlText, pc, lexer, result, inputDiagram, exported,
                 reexported, heap, calls>>

\* The loop of parseTableSettings.
TableSettingsLoop ==
  /\ pc = "parse"
  /\ InLoop(parser) = "TableSettings"
  /\ parser' = Catch(parser, TableSettingsIter(parser))
  /\ UNCHANGED <<airDmlText, pc, lexer, result, inputDiagram, exported,
                 reexported, heap, calls>>

\* The loop of parseTableBody.
TableBodyLoop ==
  /\ pc = "parse"
  /\ InLoop(parser) = "TableBody"
  /\ parser' = Catch(parser, TableBodyIter(parser))
  /\ UNCHANGED <<airDmlText, pc, lexer, result, inputDiagram, exported,
                 reexported, heap, calls>>

\* The type-parameter loop of parseColumnType.
TypeParamsLoop ==
  /\ pc = "parse"
  /\ InLoop(parser) = "TypeParams"
  /\ parser' = Catch(parser, TypeParamsIter(parser))
  /\ UNCHANGED <<airDmlText, pc, lexer, result, inputDiagram, exported,
                 reexported, heap, calls>>

\* The loop of parseColumnConstraints.
ColumnConstraintsLoop ==
  /\ pc = "parse"
  /\ InLoop(parser) = "ColumnConstraints"
  /\ parser' = Catch(parser, ColumnConstraintsIter(parser))
  /\ UNCHANGED <<airDmlText, pc, lexer, result, inputDiagram, exported,
                 reexported, heap, calls>>

\* The loop of parseIndexes.
IndexesLoop ==
  /\ pc = "parse"
  /\ InLoop(parser) = "Indexes"
  /\ parser' = Catch(parser, IndexesIter(parser))
  /\ UNCHANGED <<airDmlText, pc, lexer, result, inputDiagram, exported,
                 reexported, heap, calls>>

\* The composite column loop of parseIndex.
IndexColumnsLoop ==
  /\ pc = "parse"
  /\ InLoop(parser) = "IndexColumns"
  /\ parser' = Catch(parser, IndexColumnsIter(parser))
  /\ UNCHANGED <<airDmlText, pc, lexer, result, inputDiagram, exported,
                 reexported, heap, calls>>

\* The loop of parseIndexSettings.
IndexSettingsLoop ==
  /\ pc = "parse"
  /\ InLoop(parser) = "IndexSettings"
  /\ parser' = Catch(parser, IndexSettingsIter(parser))
  /\ UNCHANGED <<airDmlText, pc, lexer, result, inputDiagram, exported,
                 reexported, heap, calls>>

\* The loop of parseRefSettings.
RefSettingsLoop ==
  /\ pc = "parse"
  /\ InLoop(parser) = "RefSettings"
  /\ parser' = Catch(parser, RefSettingsIter(parser))
  /\ UNCHANGED <<airDmlText, pc, lexer, result, inputDiagram, exported,
                 reexported, heap, calls>>

\* The loop of parseAreaSettings.
AreaSettingsLoop ==
  /\ pc = "parse"
  /\ InLoop(parser) = "AreaSettings"
  /\ parser' = Catch(parser, AreaSettingsIter(parser))
  /\ UNCHANGED <<airDmlText, pc, lexer, result, inputDiagram, exported,
                 reexported, heap, calls>>

\* The loop of parseAreaBody.
AreaBodyLoop ==
  /\ pc = "parse"
  /\ InLoop(parser) = "AreaBody"
  /\ parser' = Catch(parser, AreaBodyIter(parser))
  /\ UNCHANGED <<airDmlText, pc, lexer, result, inputDiagram, exported,
                 reexported, heap, calls>>

\* The loop of parseCommonColumns.
CommonColumnsLoop ==
  /\ pc = "parse"
  /\ InLoop(parser) = "CommonColumns"
  /\ parser' = Catch(parser, CommonColumnsIter(parser))
  /\ UNCHANGED <<airDmlText, pc, lexer, result, inputDiagram, exported,
                 reexported, heap, calls>>

\* parse() has returned: warnings, transformAstToDiagram,
\* markForeignKeyColumns and the ParseResult.
Lower ==
  /\ pc = "parse"
  /\ parser.mode = "returned"
  /\ \E options \in Options, now \in Clock :
       result' = Success(parser, options, now)
  /\ pc' = "done"
  /\ UNCHANGED <<airDmlText, lexer, parser, inputDiagram, exported,
                 reexported, heap, calls>>

NextLex == ScanToken \/ TokenizeReturn \/ CatchLexerError

Next ==
  \/ ScanToken
  \/ TokenizeReturn
  \/ CatchLexerError
  \/ Parse
  \/ ParseProgramLoop
  \/ SynchronizeLoop
  \/ ProjectBodyLoop
  \/ TableSettingsLoop
  \/ TableBodyLoop
  \/ TypeParamsLoop
  \/ ColumnConstraintsLoop
  \/ IndexesLoop
  \/ IndexColumnsLoop
  \/ IndexSettingsLoop
  \/ RefSettingsLoop
  \/ AreaSettingsLoop
  \/ AreaBodyLoop
  \/ CommonColumnsLoop
  \/ Lower

Spec == Init /\ [][Next]_vars

SpecLex == InitLex /\ [][NextLex]_vars

(***************************************************************************)
(* Export, parse and export again: exportToAirDML(D), parseAirDML of that  *)
(* text, exportToAirDML of the diagram it returns.                         *)
(***************************************************************************)
Flags == {None, Some(TRUE)}

ColumnTypes == {"integer", "varchar", "double precision"}

TypeParams == {None, Some("255")}

LogicalNames == {None, Some("e-mail \"main\"")}

TableNameChoices == {"users", "order items"}

RelationshipTypes ==
  {"many-to-one", "one-to-many", "one-to-one", "many-to-many", "ai-inferred"}

\* A Column with the constraints a column of the grammar can carry.
NewColumn(name, type, typeParams, pk, fk, notNull, logicalName) ==
  [name |-> name, logicalName |-> logicalName, type |-> type,
   typeParams |-> typeParams, pk |-> pk, fk |-> fk, unique |-> None,
   notNull |-> notNull, increment |-> None, default |-> None, note |-> None,
   leadingComments |-> None]

NewTable(name, columns, areaIds) ==
  [id |-> "table-" \o name, name |-> name, logicalName |-> None,
   columns |-> columns, color |-> None, pos |-> None, areaIds |-> areaIds,
   note |-> None, leadingComments |-> None]

NewReference(fromName, toName, type, swapEdge) ==
  [id |-> "ref-" \o fromName \o "-id-" \o toName \o "-id",
   fromTable |-> "table-" \o fromName, fromColumn |-> "id",
   toTable |-> "table-" \o toName, toColumn |-> "id", type |-> type,
   swapEdge |-> swapEdge, note |-> None, leadingComments |-> None]

NewArea(name, tableIds) ==
  [id |-> "area-" \o name, name |-> name, tables |-> tableIds,
   color |-> Some("#1976D2"), pos |-> None, width |-> None, height |-> None,
   labelHorizontal |-> None, labelVertical |-> None, databaseType |-> None,
   commonColumns |-> None, note |-> None, leadingComments |-> None]

\* Comment-free diagrams of two tables, with or without a reference from
\* the first to the second and an area holding the first.
Diagrams ==
  {[id |-> "d0", name |-> "shop", project |-> Some("shop"),
    database |-> Some("PostgreSQL"),
    tables |->
      <<NewTable(name,
                 <<NewColumn("id", "integer", None, Some(TRUE),
                             IF ref = None THEN None ELSE Some(TRUE),
                             Some(TRUE), None),
                   NewColumn("val", type, typeParams, None, None, notNull,
                             logicalName)>>,
                 IF inArea THEN <<"area-Core">> ELSE <<>>),
        NewTable("posts",
                 <<NewColumn("id", "integer", None, Some(TRUE), None, None,
                             None)>>,
                 <<>>)>>,
    references |->
      IF ref = None THEN <<>>
      ELSE <<NewReference(name, "posts", ref[1][1], ref[1][2])>>,
    areas |->
      Some(IF inArea THEN <<NewArea("Core", <<"table-" \o name>>)>>
           ELSE <<>>),
    note |-> None, createdAt |-> Some("1000"), updatedAt |-> Some("1000")] :
     name \in TableNameChoices, type \in ColumnTypes,
     typeParams \in TypeParams, notNull \in Flags,
     logicalName \in LogicalNames,
     ref \in {None} \cup {Some(<<k, e>>) : k \in RelationshipTypes,
                                          e \in Flags},
     inArea \in BOOLEAN}

InitRoundTrip ==
  /\ inputDiagram \in {Some(d) : d \in Diagrams}
  /\ pc = "export"
  /\ airDmlText = ""
  /\ lexer = NewLexer("")
  /\ parser = NewParser(<<>>)
  /\ result = NoResult
  /\ exported = None
  /\ reexported = None
  /\ heap = NewHeap
  /\ calls = <<>>

\* exportToAirDML(D).
Export ==
  /\ pc = "export"
  /\ exported' = Some(exportToAirDML(inputDiagram[1]))
  /\ pc' = "exported"
  /\ UNCHANGED <<airDmlText, lexer, parser, result, inputDiagram,
                 reexported, heap, calls>>

\* parseAirDML(exported), with no options.
ParseExported ==
  /\ pc = "exported"
  /\ airDmlText' = exported[1]
  /\ \E now \in Clock :
       result' = parseAirDML(exported[1],
                             [diagramId |-> None, defaultDatabase |-> None],
                             now)
  /\ pc' = "reparsed"
  /\ UNCHANGED <<lexer, parser, inputDiagram, exported,
                 reexported, heap, calls>>

\* exportToAirDML(result.diagram).
ExportAgain ==
  /\ pc = "reparsed"
  /\ result.success = TRUE
  /\ reexported' = Some(exportToAirDML(result.diagram[1]))
  /\ pc' = "done"
  /\ UNCHANGED <<airDmlText, lexer, parser, result, inputDiagram, exported,
                 heap, calls>>

NextRoundTrip == Export \/ ParseExported \/ ExportAgain

SpecRoundTrip == InitRoundTrip /\ [][NextRoundTrip]_vars

(***************************************************************************)
(* Properties of Lexer.tokenize.                                           *)
(***************************************************************************)
EofCount(tokens) == Cardinality({i \in 1..Len(tokens) : tokens[i].type = "EOF"})

OffsetsOrdered(tokens, length) ==
  /\ \A i \in 1..Len(tokens) :
       /\ 0 <= tokens[i].start.offset
       /\ tokens[i].start.offset <= tokens[i].end.offset
       /\ tokens[i].end.offset <= length
  /\ \A i \in 1..(Len(tokens) - 1) :
       /\ tokens[i].start.offset <= tokens[i + 1].start.offset
       /\ tokens[i].end.offset <= tokens[i + 1].start.offset

\* C4: for every input text tokenize terminates (an iteration of its loop
\* moves the cursor forward or throws, and the cursor never passes the end of
\* the text), and it ends either with one LexerError thrown (after which no
\* token is returned to the caller) or with a token list holding exactly one
\* EOF token, its last element; at every point token start offsets are
\* non-decreasing, each end offset is at least the token's start offset and at
\* most the next token's start offset, and every offset lies in 0..length.
C4_TokenizeTotalAndOrdered ==
  /\ lexer.pos <= Len(airDmlText)
  /\ (pc = "tokenize" /\ lexer.thrown = NoError /\ ~LexIsAtEnd(lexer))
       => (scanToken(lexer).pos > lexer.pos
           \/ scanToken(lexer).thrown # NoError)
  /\ OffsetsOrdered(lexer.tokens, Len(airDmlText))
  /\ pc = "tokenized"
       => /\ lexer.thrown = NoError
          /\ Len(lexer.tokens) >= 1
          /\ lexer.tokens[Len(lexer.tokens)].type = "EOF"
          /\ EofCount(lexer.tokens) = 1
  /\ lexer.thrown # NoError
       => /\ lexer.thrown.kind = "LexerError"
          /\ pc \in {"tokenize", "done"}
          /\ EofCount(lexer.tokens) = 0

\* A tokenization that returned several tokens separated by white space.
C4_Witness ==
  /\ pc = "tokenized"
  /\ Len(lexer.tokens) >= 3
  /\ lexer.tokens[1].end.offset < lexer.tokens[2].start.offset

(***************************************************************************)
(* Properties of Parser.parse.                                             *)
(***************************************************************************)
\* The next test of the loop the parser is in consumes a token, or leaves the
\* loop, or enters an inner one.
Progresses(P) ==
  LET Q == ParserStep(P)
  IN  Q.pos > P.pos \/ Q.stack # P.stack \/ Q.mode # P.mode

\* C1: on every token sequence returned by tokenize, parse() terminates:
\* whichever loop the parser is in (top-level loop, settings lists, bodies,
\* type-parameter list, indexes block, composite-index column list,
\* synchronize), its next iteration consumes at least one token or exits.
C1_EveryIterationProgresses ==
  (pc = "parse" /\ parser.mode # "returned") => Progresses(parser)

(***************************************************************************)
(* Properties of parseAirDML.                                              *)
(***************************************************************************)
Contains(str, sub) ==
  \E i \in 0..(Len(str) - Len(sub)) : Slice(str, i, i + Len(sub)) = sub

Newlines(text, offset) == {i \in 0..(offset - 1) : CharAt(text, i) = "\n"}

\* The 1-indexed line and column of the character at an offset of a text.
LineOf(text, offset) == 1 + Cardinality(Newlines(text, offset))

ColumnOf(text, offset) ==
  IF Newlines(text, offset) = {} THEN offset + 1
  ELSE offset - (CHOOSE i \in Newlines(text, offset) :
                   \A j \in Newlines(text, offset) : j <= i)

LineColumn(line, column) == ToString(line) \o ":" \o ToString(column)

\* C5: when tokenization throws (unterminated string, unrecognized
\* character, '#' without 3 or 6 hex digits), parseAirDML returns
\* success=false with no diagram and no warnings, and an error message that
\* contains the line:column of the first character of the offending lexeme.
C5_FatalErrorReportedAtLexeme ==
  (pc = "done" /\ lexer.thrown # NoError)
    => /\ result.success = FALSE
       /\ result.diagram = None
       /\ result.warnings = None
       /\ result.error # None
       /\ Contains(result.error[1],
                   "["
                   \o LineColumn(LineOf(airDmlText,
                                        lexer.thrown.position.offset),
                                 ColumnOf(airDmlText,
                                          lexer.thrown.position.offset))
                   \o "]")

\* The ParseResult the try block owes for the diagnostics of the parser:
\* success with a diagram and no error, warnings absent when there is no
\* diagnostic and otherwise one message per diagnostic, in order, each with
\* the diagnostic's line:column.
SucceededWithWarnings ==
  /\ result.success = TRUE
  /\ result.diagram # None
  /\ result.error = None
  /\ IF parser.errors = <<>> THEN result.warnings = None
     ELSE /\ result.warnings # None
          /\ Len(result.warnings[1]) = Len(parser.errors)
          /\ \A i \in 1..Len(parser.errors) :
               Contains(result.warnings[1][i],
                        "["
                        \o LineColumn(parser.errors[i].position.line,
                                      parser.errors[i].position.column)
                        \o "]")

\* C6: for every input that tokenizes without a fatal error, parseAirDML
\* returns (the parser never rests in a loop whose iteration changes
\* nothing), and what it returns is success=true with a diagram and no error,
\* warnings being absent when no diagnostic was recorded and otherwise one
\* message per diagnostic, in the order recorded, each containing its
\* line:column.
C6_TokenizedInputSucceeds ==
  /\ (pc = "parse" /\ parser.mode # "returned")
       => ParserStep(parser) # parser
  /\ (pc = "done" /\ lexer.thrown = NoError) => SucceededWithWarnings

(***************************************************************************)
(* Properties of error recovery.                                           *)
(***************************************************************************)
\* Positions of Constructs by what they hold.
WellFormed == {1, 2, 3, 4, 5, 6, 7}

Malformed == {8, 9, 10, 13}

Unclosed == {8, 9}

\* The well-formed constructs whose first token is the top-level keyword.
Keyworded == {1, 3, 4, 5, 6, 7}

TableNames(program) ==
  {program.tables[i].name : i \in 1..Len(program.tables)}

RefEndpoints(program) ==
  {<<program.refs[i].from, program.refs[i].to>> :
     i \in 1..Len(program.refs)}

AreaNames(program) == {program.areas[i].name : i \in 1..Len(program.areas)}

\* Every top-level construct of program a is one of program b.
AppearsIn(a, b) ==
  /\ TableNames(a) \subseteq TableNames(b)
  /\ RefEndpoints(a) \subseteq RefEndpoints(b)
  /\ AreaNames(a) \subseteq AreaNames(b)
  /\ a.project # None => b.project # None

Returned == pc = "parse" /\ parser.mode = "returned"

\* C7: after a parse failure recovery skips nothing beyond the malformed
\* construct's own block: a well-formed top-level construct (Project, Table,
\* Ref, Area) that starts after a malformed top-level construct still appears
\* in the tree parse() returns.
C7_LaterConstructSurvives ==
  \A i \in Malformed, j \in WellFormed :
    (Returned /\ airDmlText = Constructs[i] \o "\n" \o Constructs[j])
      => AppearsIn(parse(tokenize(Constructs[j]).tokens).program,
                   parser.program)

\* A text with every character but the line ends replaced by a space: the
\* positions of what follows it are kept.
RECURSIVE Blank(_)
Blank(text) ==
  IF text = "" THEN ""
  ELSE (IF SubSeq(text, 1, 1) = "\n" THEN "\n" ELSE " ") \o Blank(Tail(text))

\* C8: a Table body, empty or holding complete columns only, that lacks its
\* closing brace and is directly followed by a top-level keyword yields one
\* diagnostic positioned at that keyword; the unclosed table is not in the
\* tree, and the construct starting at the keyword is parsed exactly as it is
\* when the unclosed table is absent (blanked out of the text).
C8_UnclosedTableBeforeKeyword ==
  \A i \in Unclosed, j \in Keyworded :
    (Returned /\ airDmlText = Constructs[i] \o "\n" \o Constructs[j])
      => LET absent ==
               parse(tokenize(Blank(Constructs[i]) \o "\n"
                              \o Constructs[j]).tokens)
         IN  /\ Len(parser.errors) = 1
             /\ parser.errors[1].position = absent.tokens[1].start
             /\ parser.errors[1].position.offset = Len(Constructs[i]) + 1
             /\ absent.errors = <<>>
             /\ parser.program.project = absent.program.project
             /\ parser.program.tables = absent.program.tables
             /\ parser.program.refs = absent.program.refs
             /\ parser.program.areas = absent.program.areas

\* An unclosed table holding a column, followed by a table that was parsed.
C8_Witness ==
  /\ Returned
  /\ airDmlText = Constructs[8] \o "\n" \o Constructs[1]
  /\ Len(parser.program.tables) = 1
  /\ parser.program.tables[1].name = "users"
  /\ Len(parser.errors) = 1

(***************************************************************************)
(* Properties of lowering.                                                 *)
(***************************************************************************)
Lowered == pc = "done" /\ result.success = TRUE

\* C9: in every diagram produced by lowering, for every reference R, every
\* table T with T.id = R.fromTable and every column C of T with
\* C.name = R.fromColumn, C.fk is true.
C9_EveryFromColumnIsForeignKey ==
  Lowered =>
    LET d == result.diagram[1]
    IN  \A r \in 1..Len(d.references), t \in 1..Len(d.tables) :
          d.tables[t].id = d.references[r].fromTable
            => \A c \in 1..Len(d.tables[t].columns) :
                 d.tables[t].columns[c].name = d.references[r].fromColumn
                   => d.tables[t].columns[c].fk = Some(TRUE)

\* The tables of a diagram that have a name.
Named(d, name) == {t \in 1..Len(d.tables) : d.tables[t].name = name}

\* Area a of the tree lists a table name: table t of the diagram has the
\* area's id among its areaIds, and the area has the table's id among tables.
Joined(d, a, t) ==
  /\ Includes(d.tables[t].areaIds, "area-" \o parser.program.areas[a].name)
  /\ Includes(d.areas[1][a].tables, d.tables[t].id)

ConstraintSet(c) ==
  {k \in {"pk", "fk", "unique", "notNull", "increment"} :
     CASE k = "pk" -> TruthyBoolean(c.pk)
       [] k = "fk" -> TruthyBoolean(c.fk)
       [] k = "unique" -> TruthyBoolean(c.unique)
       [] k = "notNull" -> TruthyBoolean(c.notNull)
       [] OTHER -> TruthyBoolean(c.increment)}

ColumnSet(t) ==
  {<<t.columns[i].name, t.columns[i].type, ConstraintSet(t.columns[i])>> :
     i \in 1..Len(t.columns)}

\* The name of the table of diagram d that has an id; "" when none has.
TableNameOf(d, id) ==
  LET HasId(t) == t.id = id
      k == FindIndex(d.tables, HasId, 1)
  IN  IF k = 0 THEN "" ELSE d.tables[k].name

Members(d, areaId) ==
  {d.tables[t].name : t \in {u \in 1..Len(d.tables) :
                               Includes(d.tables[u].areaIds, areaId)}}

\* What the round trip is to keep: table names, per-table column
\* name/type/constraint sets, reference endpoint/kind sets, area-membership
\* sets.
Structure(d) ==
  [tables |-> {<<d.tables[t].name, ColumnSet(d.tables[t])>> :
                 t \in 1..Len(d.tables)},
   references |->
     {<<TableNameOf(d, d.references[r].fromTable),
        d.references[r].fromColumn,
        TableNameOf(d, d.references[r].toTable), d.references[r].toColumn,
        d.references[r].type>> : r \in 1..Len(d.references)},
   areas |->
     IF d.areas = None THEN {}
     ELSE {<<d.areas[1][a].name, Members(d, d.areas[1][a].id)>> :
             a \in 1..Len(d.areas[1])}]

\* C2: for every Diagram D built from features of the grammar, parsing and
\* lowering exportToAirDML(D) succeeds and yields a diagram with the same
\* table names, per-table column name/type/constraint sets, reference
\* endpoint/kind sets and area-membership sets as D.
C2_RoundTripKeepsStructure ==
  pc \in {"reparsed", "done"}
    => /\ result.success = TRUE
       /\ Structure(result.diagram[1]) = Structure(inputDiagram[1])

\* C3: for every Diagram D without comments, exporting, parsing and exporting
\* again gives the text of the first export, character for character.
C3_ExportIsIdempotent ==
  pc = "done" => reexported = exported


(***************************************************************************)
(* parseAirDML on documents of two Ref lines whose endpoint names are bare *)
(* identifiers and quoted names.                                           *)
(***************************************************************************)
\* Names the parser can produce: IDENTIFIER values and STRING values.
EndpointNames == {"a", "b", "a-b", "b-a"}

\* A Ref line; a name that is not a bare identifier is written quoted.
RefLine(ft, fc, tt, tc) ==
  "Ref: " \o escapeIdentifier(ft) \o "." \o escapeIdentifier(fc) \o " > "
  \o escapeIdentifier(tt) \o "." \o escapeIdentifier(tc)

RefLines ==
  {RefLine(ft, fc, tt, tc) :
     ft \in EndpointNames, fc \in EndpointNames, tt \in {"a", "b-a"},
     tc \in {"b", "a-b"}}

InitRefs == \E r1 \in RefLines, r2 \in RefLines : InitWith(r1 \o "\n" \o r2)

NextRefs ==
  \/ ScanToken
  \/ TokenizeReturn
  \/ Parse
  \/ ParseProgramLoop
  \/ Lower

SpecRefs == InitRefs /\ [][NextRefs]_vars

\* C11: the reference id is injective on its four endpoint components: two
\* references of a lowered diagram that differ in from-table, from-column,
\* to-table or to-column have different ids, for bare and quoted names.
C11_ReferenceIdInjective ==
  Lowered =>
    LET refs == result.diagram[1].references
    IN  \A i \in 1..Len(refs), j \in 1..Len(refs) :
          <<refs[i].fromTable, refs[i].fromColumn, refs[i].toTable,
            refs[i].toColumn>>
            # <<refs[j].fromTable, refs[j].fromColumn, refs[j].toTable,
                refs[j].toColumn>>
            => refs[i].id # refs[j].id


(***************************************************************************)
(* Properties of the relationship symbols.                                 *)
(***************************************************************************)
\* The relation types parseRelationType returns.
RelationSymbols == {">", "<", "-", "<>", "~"}

InSourceOrder(nodes) ==
  \A i \in 1..(Len(nodes) - 1) :
    nodes[i].start.offset < nodes[i + 1].start.offset

\* C13: lowering is one-to-one and order-preserving: the diagram has one
\* table per Table node, one reference per Ref node and one area per Area
\* node, in source order, the columns of each table in source order, with
\* table id = 'table-' + name and area id = 'area-' + name; same-named
\* tables or areas stay separate entries.
C13_LoweringKeepsNodesInOrder ==
  Lowered =>
    LET d == result.diagram[1]
        ast == parser.program
    IN  /\ InSourceOrder(ast.tables)
        /\ InSourceOrder(ast.refs)
        /\ InSourceOrder(ast.areas)
        /\ Len(d.tables) = Len(ast.tables)
        /\ \A t \in 1..Len(ast.tables) :
             /\ d.tables[t].name = ast.tables[t].name
             /\ d.tables[t].id = "table-" \o ast.tables[t].name
             /\ InSourceOrder(ast.tables[t].columns)
             /\ Len(d.tables[t].columns) = Len(ast.tables[t].columns)
             /\ \A c \in 1..Len(ast.tables[t].columns) :
                  d.tables[t].columns[c].name = ast.tables[t].columns[c].name
        /\ Len(d.references) = Len(ast.refs)
        /\ \A r \in 1..Len(ast.refs) :
             /\ d.references[r].fromTable = "table-" \o ast.refs[r].from.table
             /\ d.references[r].fromColumn = ast.refs[r].from.column
             /\ d.references[r].toTable = "table-" \o ast.refs[r].to.table
             /\ d.references[r].toColumn = ast.refs[r].to.column
        /\ d.areas # None
        /\ Len(d.areas[1]) = Len(ast.areas)
        /\ \A a \in 1..Len(ast.areas) :
             /\ d.areas[1][a].name = ast.areas[a].name
             /\ d.areas[1][a].id = "area-" \o ast.areas[a].name

\* Two tables named users, of two and of three columns, were lowered: two
\* entries with equal ids, the same-named columns of the second kept apart.
C13_Witness ==
  /\ Lowered
  /\ LET d == result.diagram[1]
     IN  /\ Len(d.tables) = 2
         /\ d.tables[1].id = d.tables[2].id
         /\ Len(d.tables[1].columns) = 2
         /\ Len(d.tables[2].columns) = 3
         /\ d.tables[2].columns[2].name = "id"
         /\ d.tables[2].columns[3].name = "id"


(***************************************************************************)
(* parseAirDML on documents of line comments, well-formed constructs and   *)
(* malformed ones.                                                         *)
(***************************************************************************)
MaxPieces == 4

\* Two line comments, a table with a comment before its column, a Ref, a
\* table whose body is not closed, a stray closing brace.
Pieces ==
  <<"// a", "// b", "Table users {\n  // key\n  id int\n}", "Ref: x.y > z.w",
    "Table open {", "}">>

CommentPieces == {1, 2}

ParsedPieces == {3, 4}

UnclosedPiece == CHOOSE i \in 1..Len(Pieces) : Pieces[i] = "Table open {"

\* Sequences of at most n pieces; the unclosed table is directly followed by
\* a top-level keyword.
RECURSIVE PieceSeqs(_)
PieceSeqs(n) ==
  IF n = 0 THEN {<<>>}
  ELSE LET shorter == PieceSeqs(n - 1)
       IN  shorter
           \cup {<<i>> \o q : i \in (1..Len(Pieces)) \ {UnclosedPiece},
                              q \in shorter}
           \cup {<<UnclosedPiece>> \o q :
                   q \in {r \in shorter : r # <<>> /\ r[1] \in ParsedPieces}}

RECURSIVE TextOf(_)
TextOf(q) ==
  IF q = <<>> THEN ""
  ELSE IF Len(q) = 1 THEN Pieces[q[1]]
  ELSE Pieces[q[1]] \o "\n" \o TextOf(Tail(q))

InitComments == \E q \in PieceSeqs(MaxPieces) : InitWith(TextOf(q))

NextComments ==
  \/ ScanToken
  \/ TokenizeReturn
  \/ Parse
  \/ ParseProgramLoop
  \/ SynchronizeLoop
  \/ TableBodyLoop
  \/ Lower

SpecComments == InitComments /\ [][NextComments]_vars

\* The leadingComments the constructs of a piece sequence are owed, one
\* entry per construct that parses: a comment joins the pending run, a
\* construct that parses takes the run, one that fails leaves it pending.
RECURSIVE OwedComments(_, _)
OwedComments(q, pending) ==
  IF q = <<>> THEN <<>>
  ELSE IF q[1] \in CommentPieces
  THEN OwedComments(Tail(q), Append(pending, SubSeq(Pieces[q[1]], 4, 4)))
  ELSE IF q[1] \in ParsedPieces
  THEN <<pending>> \o OwedComments(Tail(q), <<>>)
  ELSE OwedComments(Tail(q), pending)

\* The tables and refs of a tree by start offset, with their comments.
TopLevelNodes(program) ==
  {[offset |-> program.tables[i].start.offset,
    comments |-> program.tables[i].leadingComments] :
     i \in 1..Len(program.tables)}
  \cup {[offset |-> program.refs[i].start.offset,
         comments |-> program.refs[i].leadingComments] :
          i \in 1..Len(program.refs)}

\* The leadingComments of a set of nodes, in source order.
RECURSIVE LeadingInOrder(_)
LeadingInOrder(nodes) ==
  IF nodes = {} THEN <<>>
  ELSE LET first == CHOOSE n \in nodes : \A m \in nodes : n.offset <= m.offset
       IN  <<IF first.comments = None THEN <<>> ELSE first.comments[1]>>
           \o LeadingInOrder(nodes \ {first})

\* C14: a run of consecutive line comments becomes, in source order, the
\* leadingComments of the next top-level construct or table column that
\* parses, and the pending buffer is then empty; when the construct directly
\* after the comments fails to parse they go to the next construct that
\* parses; comments followed only by the end of input go to no node.
C14_CommentsLeadNextParsedConstruct ==
  \A q \in PieceSeqs(MaxPieces) :
    (Returned /\ airDmlText = TextOf(q))
      => /\ LeadingInOrder(TopLevelNodes(parser.program))
              = OwedComments(q, <<>>)
         /\ \A t \in 1..Len(parser.program.tables) :
              /\ Len(parser.program.tables[t].columns) = 1
              /\ parser.program.tables[t].columns[1].leadingComments
                   = Some(<<"key">>)
         /\ (q # <<>> /\ q[Len(q)] \in ParsedPieces)
              => parser.pendingComments = <<>>


(***************************************************************************)
(* Lexer.tokenize on texts holding one '#' followed by hex digits.         *)
(***************************************************************************)
MaxHex == 8

\* Every run of exactly n hex digits over 1, f and F.
RECURSIVE HexRuns(_)
HexRuns(n) ==
  IF n = 0 THEN {""}
  ELSE {r \o d : r \in HexRuns(n - 1), d \in {"1", "f", "F"}}

\* What precedes the '#' (the last one a string literal with a line end in
\* it) and what follows the run of hex digits.
ColorPrefixes == {"", "x ", "\n ", "\"\n\" "}

ColorSuffixes == {"", " x", "g", "}"}

ColorTexts ==
  {p \o "#" \o r \o q :
     p \in ColorPrefixes, q \in ColorSuffixes,
     r \in UNION {HexRuns(n) : n \in 0..MaxHex}}

InitColors == \E text \in ColorTexts : InitWith(text)

SpecColors == InitColors /\ [][NextLex]_vars

\* The length of the maximal run of hex digits of a text from an offset.
RECURSIVE HexRunLength(_, _)
HexRunLength(text, i) ==
  IF i < Len(text) /\ isHexDigit(CharAt(text, i))
  THEN 1 + HexRunLength(text, i + 1)
  ELSE 0

\* C15: a '#' followed by a maximal run of n hex digits yields one STRING
\* token whose value is '#' plus those digits when n is 3 or 6, and for
\* every other n a LexerError positioned at the '#' (its offset, line and
\* column), after which tokenize returns no tokens.
C15_ColorLiteralOfThreeOrSixDigits ==
  LET at == IndexOf(airDmlText, "#", 0)
      n == HexRunLength(airDmlText, at + 1)
      colors == {k \in 1..Len(lexer.tokens) :
                   lexer.tokens[k].start.offset = at}
  IN  (at >= 0 /\ lexer.pos > at)
        => IF n \in {3, 6}
           THEN /\ lexer.thrown = NoError
                /\ Cardinality(colors) = 1
                /\ \A k \in colors :
                     /\ lexer.tokens[k].type = "STRING"
                     /\ lexer.tokens[k].value
                          = Slice(airDmlText, at, at + n + 1)
                     /\ lexer.tokens[k].end.offset = at + n + 1
           ELSE /\ lexer.thrown # NoError
                /\ lexer.thrown.kind = "LexerError"
                /\ lexer.thrown.position
                     = [line |-> LineOf(airDmlText, at),
                        column |-> ColumnOf(airDmlText, at), offset |-> at]
                /\ pc # "tokenized"
                /\ pc = "done" => result = Failure(lexer.thrown)


(***************************************************************************)
(* exportToAirDML on diagrams of two tables and up to MaxRefs references,  *)
(* some of them naming a table the diagram does not hold.                  *)
(***************************************************************************)
MaxRefs == 2

\* The references a diagram may hold: `ghosts` is the name of no table.
ReferencePool ==
  {NewReference(from, to, type, swapEdge) :
     from \in {"users", "posts", "ghosts"},
     to \in {"users", "posts", "ghosts"},
     type \in {"many-to-one", "many-to-many"}, swapEdge \in Flags}

RECURSIVE ReferenceLists(_)
ReferenceLists(n) ==
  IF n = 0 THEN {<<>>}
  ELSE LET shorter == ReferenceLists(n - 1)
       IN  shorter \cup {Append(l, r) : l \in shorter, r \in ReferencePool}

ExportDiagrams ==
  {[id |-> "d0", name |-> "shop", project |-> Some("shop"),
    database |-> Some("PostgreSQL"),
    tables |->
      <<NewTable("users",
                 <<NewColumn("id", "integer", None, Some(TRUE), None, None,
                             None)>>,
                 <<>>),
        NewTable("posts",
                 <<NewColumn("id", "integer", None, Some(TRUE), None, None,
                             None)>>,
                 <<>>)>>,
    references |-> references, areas |-> Some(<<>>), note |-> None,
    createdAt |-> Some("1000"), updatedAt |-> Some("1000")] :
     references \in ReferenceLists(MaxRefs)}

InitExport ==
  /\ inputDiagram \in {Some(d) : d \in ExportDiagrams}
  /\ pc = "export"
  /\ airDmlText = ""
  /\ lexer = NewLexer("")
  /\ parser = NewParser(<<>>)
  /\ result = NoResult
  /\ exported = None
  /\ reexported = None
  /\ heap = NewHeap
  /\ calls = <<>>

SpecExport == InitExport /\ [][NextRoundTrip]_vars

\* The lines of a text.
RECURSIVE SplitLines(_)
SplitLines(text) ==
  LET k == IndexOf(text, "\n", 0)
  IN  IF k < 0 THEN <<text>>
      ELSE <<Slice(text, 0, k)>> \o SplitLines(Slice(text, k + 1, Len(text)))

StartsWith(str, prefix) ==
  Len(str) >= Len(prefix) /\ Slice(str, 0, Len(prefix)) = prefix

IsRefLine(line) == StartsWith(line, "Ref: ")

\* The 'Ref:' lines of the exported text, in order.
ExportedRefLines == SelectSeq(SplitLines(exported[1]), IsRefLine)

\* Table ids name tables as 'table-' + name.
NameOfId(id) == Slice(id, 6, Len(id))

\* How the line of a reference begins: its endpoints and its symbol.
RefLineStart(ref) ==
  "Ref: " \o NameOfId(ref.fromTable) \o "." \o ref.fromColumn \o " "
  \o getRelationshipSymbol(ref.type) \o " " \o NameOfId(ref.toTable) \o "."
  \o ref.toColumn

\* Both endpoint tables of a reference are tables of the diagram.
Resolved(ref) ==
  /\ \E t \in 1..Len(inputDiagram[1].tables) :
       inputDiagram[1].tables[t].id = ref.fromTable
  /\ \E t \in 1..Len(inputDiagram[1].tables) :
       inputDiagram[1].tables[t].id = ref.toTable

AreaDiagrams ==
  {[id |-> "d0", name |-> "shop", project |-> Some("shop"),
    database |-> Some("PostgreSQL"),
    tables |->
      <<NewTable("users",
                 <<NewColumn("id", "integer", None, Some(TRUE), None, None,
                             None)>>,
                 IF Includes(members, "users") THEN <<"area-Core">> ELSE <<>>),
        NewTable("posts",
                 <<NewColumn("id", "integer", None, Some(TRUE), None, None,
                             None)>>,
                 IF Includes(members, "posts") THEN <<"area-Core">> ELSE <<>>)>>,
    references |-> <<>>,
    areas |->
      Some(<<[NewArea("Core", <<>>) EXCEPT
                !.tables =
                  [t \in 1..Len(members) |-> "table-" \o members[t]],
                !.databaseType = databaseType,
                !.commonColumns = commonColumns,
                !.note = note]>>),
    note |-> None, createdAt |-> Some("1000"), updatedAt |-> Some("1000")] :
     members \in {<<>>, <<"users">>, <<"posts">>, <<"users", "posts">>},
     databaseType \in {None, Some("MySQL"), Some("PostgreSQL")},
     commonColumns \in
       {None,
        Some(<<NewColumn("created", "timestamp", None, None, None, None,
                         None)>>)},
     note \in {None, Some("core tables")}}

InitAreas ==
  /\ inputDiagram \in {Some(d) : d \in AreaDiagrams}
  /\ pc = "export"
  /\ airDmlText = ""
  /\ lexer = NewLexer("")
  /\ parser = NewParser(<<>>)
  /\ result = NoResult
  /\ exported = None
  /\ reexported = None
  /\ heap = NewHeap
  /\ calls = <<>>

SpecAreas == InitAreas /\ [][NextRoundTrip]_vars

\* C17: an Area's databaseType survives export followed by parse: for every
\* Area with a databaseType, the Area obtained by parsing the exported text
\* has the same databaseType and exactly the same member table names.
C17_AreaDatabaseTypeSurvives ==
  pc \in {"reparsed", "done"}
    => \A a \in 1..Len(inputDiagram[1].areas[1]) :
         LET area == inputDiagram[1].areas[1][a]
         IN  area.databaseType # None
               => /\ result.success = TRUE
                  /\ \E b \in 1..Len(result.diagram[1].areas[1]) :
                       LET again == result.diagram[1].areas[1][b]
                       IN  /\ again.name = area.name
                           /\ again.databaseType = area.databaseType
                           /\ Members(result.diagram[1], again.id)
                                = Members(inputDiagram[1], area.id)


(***************************************************************************)
(* tokenize(), parse() and parseAirDML called twice: the two tokenize()    *)
(* calls on one Lexer object, the two parse() calls on one Parser object.  *)
(***************************************************************************)
\* tokenize() on the object L with the heap H: `this.tokens = []` allocates
\* the array the call fills and returns, and pos, line, column start anew.
\* tokenizeOnSameList is tokenize() without `this.tokens = []`.
tokenizeOnSameList(L, H) ==
  LET L1 == TokenizeLoop([L EXCEPT !.pos = 0, !.line = 1, !.column = 1,
                                   !.thrown = NoError])
  IN  [L |-> L1, H |-> [H EXCEPT !.arrays[H.tokens] = L1.tokens]]

tokenizeOn(L, H) ==
  LET ref == Len(H.arrays) + 1
      L1 == TokenizeLoop([L EXCEPT !.tokens = <<>>, !.pos = 0, !.line = 1,
                                   !.column = 1, !.thrown = NoError])
  IN  [L |-> L1,
       H |-> [H EXCEPT !.arrays = Append(@, L1.tokens), !.tokens = ref]]

\* parse() on the object P with the heap H: `this.errors = []` allocates the
\* array the call fills and returns.
parseOn(P, H) ==
  LET ref == Len(H.arrays) + 1
      P1 == ParseLoop(BeginParse(P))
  IN  [P |-> P1,
       H |-> [H EXCEPT !.arrays = Append(@, P1.errors), !.errors = ref]]

\* What a call returned or threw: `list` is the array returned (0: none)
\* and `value` what it held at the return.
Call(fn, thrown, list, value, ast, res) ==
  [fn |-> fn, thrown |-> thrown, list |-> list, value |-> value, ast |-> ast,
   result |-> res]

\* Texts that tokenize, with and without diagnostics, and texts that throw.
AgainTexts == Documents(MaxConstructs - 1) \cup {"\"a", "a @ b"}

InitAgain ==
  \E text \in AgainTexts :
    /\ airDmlText = text
    /\ pc = "calls"
    /\ lexer = NewLexer(text)
    /\ parser = NewParser(<<>>)
    /\ result = NoResult
    /\ inputDiagram = None
    /\ exported = None
    /\ reexported = None
    /\ heap = NewHeap
    /\ calls = <<>>

\* lexer.tokenize(), the first and the second time.
CallTokenize ==
  /\ pc = "calls"
  /\ Len(calls) < 2
  /\ \E r \in {tokenizeOn(lexer, heap)} :
         /\ lexer' = r.L
         /\ heap' = r.H
         /\ calls' = Append(calls,
                            IF r.L.thrown # NoError
                            THEN Call("tokenize", r.L.thrown, 0, <<>>, None,
                                      NoResult)
                            ELSE Call("tokenize", NoError, r.H.tokens,
                                      r.L.tokens, None, NoResult))
  /\ UNCHANGED <<airDmlText, pc, parser, result, inputDiagram, exported,
                 reexported>>

\* `new Parser(tokens)` on the list the second tokenize() returned.
ConstructParser ==
  /\ pc = "calls"
  /\ Len(calls) = 2
  /\ calls[2].thrown = NoError
  /\ heap.errors = 0
  /\ parser' = NewParser(heap.arrays[calls[2].list])
  /\ heap' = [heap EXCEPT !.arrays = Append(@, <<>>),
                          !.errors = Len(heap.arrays) + 1]
  /\ UNCHANGED <<airDmlText, pc, lexer, result, inputDiagram, exported,
                 reexported, calls>>

\* parser.parse(), the first and the second time; a call that does not
\* return is no step.
CallParse ==
  /\ pc = "calls"
  /\ heap.errors # 0
  /\ Len(calls) < 4
  /\ \E r \in {parseOn(parser, heap)} :
         /\ r.P.mode = "returned"
         /\ parser' = r.P
         /\ heap' = r.H
         /\ calls' = Append(calls, Call("parse", NoError, r.H.errors,
                                        r.P.errors, Some(r.P.program),
                                        NoResult))
  /\ UNCHANGED <<airDmlText, pc, lexer, result, inputDiagram, exported,
                 reexported>>

\* parseAirDML(airDmlText, {diagramId: 'd1', ...}), the first and the second
\* time, at some reading of the clock.
CallParseAirDML ==
  /\ pc = "calls"
  /\ Len(calls) >= 2
  /\ IF calls[2].thrown # NoError THEN Len(calls) < 4
     ELSE Len(calls) \in {4, 5}
  /\ \E now \in Clock, options \in {o \in Options : o.diagramId # None} :
       \E res \in {parseAirDML(airDmlText, options, now)} :
         /\ res # NoResult
         /\ result' = res
         /\ calls' = Append(calls, Call("parseAirDML", NoError, 0, <<>>, None,
                                        res))
  /\ UNCHANGED <<airDmlText, pc, lexer, parser, inputDiagram, exported,
                 reexported, heap>>

NextAgain == CallTokenize \/ ConstructParser \/ CallParse \/ CallParseAirDML

SpecAgain == InitAgain /\ [][NextAgain]_vars

\* A ParseResult without the createdAt and updatedAt of its diagram.
Timeless(res) ==
  IF res # NoResult /\ res.success = TRUE
  THEN [res EXCEPT !.diagram = Some([res.diagram[1] EXCEPT
                                       !.createdAt = None,
                                       !.updatedAt = None])]
  ELSE res

\* C18: results depend only on the input: a second tokenize() on the same
\* Lexer, or parse() on the same Parser, also after a call that threw or
\* recorded diagnostics, returns (or throws) what the first call did, and the
\* list the first call returned is left as it was; two parseAirDML calls on
\* the same text with the same diagramId differ at most in createdAt and
\* updatedAt.
C18_CallsDependOnInputOnly ==
  /\ \A i \in 1..Len(calls), j \in 1..Len(calls) :
       (i < j /\ calls[i].fn = calls[j].fn)
         => /\ calls[i].thrown = calls[j].thrown
            /\ calls[i].value = calls[j].value
            /\ calls[i].ast = calls[j].ast
            /\ calls[i].list # 0 => calls[i].list # calls[j].list
            /\ Timeless(calls[i].result) = Timeless(calls[j].result)
  /\ \A i \in 1..Len(calls) :
       calls[i].list # 0 => heap.arrays[calls[i].list] = calls[i].value

\* Both parse() calls recorded diagnostics, and the two parseAirDML calls
\* were made at different readings of the clock.
C18_Witness ==
  /\ Len(calls) = 6
  /\ calls[3].fn = "parse"
  /\ calls[3].value # <<>>
  /\ calls[4].value = calls[3].value
  /\ calls[5].result.diagram[1].createdAt
       # calls[6].result.diagram[1].createdAt

(***************************************************************************)
(* Error recovery: where synchronize leaves the cursor.                    *)
(***************************************************************************)
\* The cursor at which the diagnostic recorded last was thrown, which is
\* where the synchronize() that follows it starts.
FailurePoint(P) ==
  CHOOSE i \in 0..(Len(P.tokens) - 1) :
    P.tokens[i + 1].start = P.errors[Len(P.errors)].position

\* The tokens from the failure point up to, not including, cursor `pos`
\* are tokens synchronize skips: no '}', no top-level keyword.
SkippedOnly(P, pos) ==
  \A i \in FailurePoint(P)..(pos - 1) :
    P.tokens[i + 1].type \notin {"RBRACE", "PROJECT", "TABLE", "REF", "AREA",
                                 "EOF"}

\* Where a returning synchronize() may leave the cursor.
SynchronizedAt(P) ==
  \/ isAtEnd(P) /\ SkippedOnly(P, P.pos)
  \/ isTopLevelKeyword(P) /\ SkippedOnly(P, P.pos)
  \/ /\ P.pos > FailurePoint(P)
     /\ P.tokens[P.pos].type = "RBRACE"
     /\ SkippedOnly(P, P.pos - 1)

C19_Step ==
  /\ parser'.errors # parser.errors
       => /\ parser.mode # "synchronize"
          /\ parser'.mode = "synchronize"
  /\ (parser.mode # "synchronize" /\ parser'.mode = "synchronize")
       => /\ Len(parser'.errors) = Len(parser.errors) + 1
          /\ parser'.pos = FailurePoint(parser')
  /\ parser.mode = "synchronize"
       => /\ parser'.pos >= parser.pos
          /\ parser'.mode = "synchronize"
               => /\ parser'.pos = parser.pos + 1
                  /\ SkippedOnly(parser', parser'.pos)
          /\ parser'.mode # "synchronize"
               => /\ parser'.mode = "parseProgram"
                  /\ parser'.stack = <<>>
                  /\ parser'.pos \in {parser.pos, parser.pos + 1}
                  /\ SynchronizedAt(parser')

\* C19: every synchronize() call leaves the cursor at end of input, at a
\* PROJECT/TABLE/REF/AREA token that it did not consume, or immediately
\* after the first '}' at or after the failure point, which it consumed; it
\* never moves the cursor backwards; and it is entered exactly when a
\* diagnostic is recorded, once for each.
C19_SynchronizeStopsAtSyncPoint == [][C19_Step]_vars

\* synchronize() has just returned after skipping at least one token and
\* consuming the first '}' that followed the failure point.
C19_Witness ==
  /\ pc = "parse"
  /\ parser.mode = "parseProgram"
  /\ parser.stack = <<>>
  /\ parser.errors # <<>>
  /\ parser.pos > FailurePoint(parser) + 1
  /\ parser.tokens[parser.pos].type = "RBRACE"
  /\ SkippedOnly(parser, parser.pos - 1)

(***************************************************************************)
(* A Table body that is never closed.                                      *)
(***************************************************************************)
\* What may stand before the unclosed table, and what may follow it: nothing
\* (the input ends inside the body) or a construct starting with a top-level
\* keyword.
BeforeUnclosed == {""} \cup {Constructs[k] \o "\n" : k \in Keyworded}

AfterUnclosed == {""} \cup {"\n" \o Constructs[j] : j \in Keyworded}

\* A diagnostic tagged with a source position at or after offset `from`.
DiagnosedFrom(P, from) ==
  \E n \in 1..Len(P.errors) :
    /\ P.errors[n].position.offset >= from
    /\ P.errors[n].position.line >= 1
    /\ P.errors[n].position.column >= 1

\* C20: a Table whose body is opened with '{' and never closed records at
\* least one diagnostic tagged with a source position, both when a top-level
\* keyword follows the open body and when the input ends inside the body.
C20_UnclosedTableIsDiagnosed ==
  \A i \in Unclosed, before \in BeforeUnclosed, after \in AfterUnclosed :
    (Returned /\ airDmlText = before \o Constructs[i] \o after)
      => DiagnosedFrom(parser, Len(before))

(***************************************************************************)
(* Reserved words as column names.                                         *)
(***************************************************************************)
\* The reserved words isKeyword lists, without the four top-level ones.
ColumnKeywords ==
  {"note", "indexes", "pk", "fk", "unique", "not", "null", "increment",
   "default", "alias", "name"}

KeywordColumnText(kw, type, rest) ==
  "Table t {\n  " \o kw \o " " \o type \o rest \o "\n}"

KeywordColumnRests == {"", "\n  id int"}

InitKeywordColumns ==
  \E kw \in ColumnKeywords, type \in {"int", "text"},
     rest \in KeywordColumnRests :
    InitWith(KeywordColumnText(kw, type, rest))

NextKeywordColumns ==
  \/ ScanToken
  \/ TokenizeReturn
  \/ Parse
  \/ ParseProgramLoop
  \/ SynchronizeLoop
  \/ TableBodyLoop
  \/ Lower

SpecKeywordColumns == InitKeywordColumns /\ [][NextKeywordColumns]_vars

\* C21: inside a table body every reserved word that is a keyword other
\* than the four top-level ones is accepted as a column name: 'kw type'
\* parses to a column named kw and records no diagnostic.
C21_KeywordIsColumnName ==
  \A kw \in ColumnKeywords, type \in {"int", "text"},
     rest \in KeywordColumnRests :
    (Returned /\ airDmlText = KeywordColumnText(kw, type, rest))
      => /\ parser.errors = <<>>
         /\ Len(parser.program.tables) = 1
         /\ Len(parser.program.tables[1].columns) >= 1
         /\ parser.program.tables[1].columns[1].name = kw
         /\ parser.program.tables[1].columns[1].type = type

(***************************************************************************)
(* Unknown content inside a braced body.                                   *)
(***************************************************************************)
\* A braced body of each kind, with room for a line between its entries.
BodyKinds == {"Project", "Table", "Area", "indexes"}

BodyText(kind, line) ==
  CASE kind = "Project" ->
         "Project shop {\n  database_type: 'MySQL'\n" \o line
           \o "  note: 'n'\n}"
    [] kind = "Table" ->
         "Table users {\n  id int\n" \o line \o "  name text\n}"
    [] kind = "Area" ->
         "Area core {\n  users\n" \o line \o "  posts\n}"
    [] kind = "indexes" ->
         "Table users {\n  id int\n  indexes {\n    id\n" \o line
           \o "    name\n  }\n}"

\* Lines no body knows: 'key: value' lines and a line of symbols and numbers.
UnknownLines == {"  foo: bar\n", "  foo: \"bar\"\n", "  : 5\n"}

InitUnknownContent ==
  \E kind \in BodyKinds, line \in UnknownLines \cup {""} :
    InitWith(BodyText(kind, line))

NextUnknownContent ==
  \/ ScanToken
  \/ TokenizeReturn
  \/ Parse
  \/ ParseProgramLoop
  \/ SynchronizeLoop
  \/ ProjectBodyLoop
  \/ TableBodyLoop
  \/ IndexesLoop
  \/ AreaBodyLoop
  \/ Lower

SpecUnknownContent == InitUnknownContent /\ [][NextUnknownContent]_vars

\* What a tree holds apart from source ranges: the names, types, constraints
\* and settings of its nodes.
ColumnContent(c) ==
  [name |-> c.name, type |-> c.type, typeParams |-> c.typeParams,
   constraints |-> c.constraints]

ColumnsContent(cols) == [i \in 1..Len(cols) |-> ColumnContent(cols[i])]

IndexesContent(xs) ==
  [i \in 1..Len(xs) |-> [columns |-> xs[i].columns,
                          settings |-> xs[i].settings]]

TableContent(t) ==
  [name |-> t.name, columns |-> ColumnsContent(t.columns),
   indexes |-> IF t.indexes = None THEN <<>> ELSE IndexesContent(t.indexes[1]),
   settings |-> t.settings, note |-> t.note]

AreaContent(a) ==
  [name |-> a.name, tables |-> a.tables, settings |-> a.settings,
   commonColumns |-> IF a.commonColumns = None THEN <<>>
                     ELSE ColumnsContent(a.commonColumns[1]),
   note |-> a.note]

ProgramContent(program) ==
  [project |-> IF program.project = None THEN None
               ELSE Some([name |-> program.project[1].name,
                          settings |-> program.project[1].settings]),
   tables |-> [i \in 1..Len(program.tables) |->
                 TableContent(program.tables[i])],
   refs |-> [i \in 1..Len(program.refs) |->
               [name |-> program.refs[i].name, from |-> program.refs[i].from,
                to |-> program.refs[i].to,
                relationType |-> program.refs[i].relationType,
                settings |-> program.refs[i].settings]],
   areas |-> [i \in 1..Len(program.areas) |->
                AreaContent(program.areas[i])]]

\* C22: unknown content inside a braced body (Project, Table, Area,
\* indexes), for example an unrecognized 'key: value' line, is skipped token
\* by token without recording a diagnostic and without changing the columns,
\* member tables, indexes or note parsed from the rest of the body: the tree
\* is the one parsed when the line is blanked out.
C22_UnknownContentIsSkipped ==
  \A kind \in BodyKinds, line \in UnknownLines :
    (Returned /\ airDmlText = BodyText(kind, line))
      => LET absent == parse(tokenize(BodyText(kind, Blank(line))).tokens)
         IN  /\ parser.errors = <<>>
             /\ absent.errors = <<>>
             /\ ProgramContent(parser.program) = ProgramContent(absent.program)

(***************************************************************************)
(* Unknown keys inside a bracketed settings list.                          *)
(***************************************************************************)
SettingsKinds == {"table", "column", "ref", "area", "index"}

\* A construct whose settings list of the given kind holds one recognized
\* entry, with room for an entry before it and after it.
SettingsText(kind, before, after) ==
  CASE kind = "table" ->
         "Table users [" \o before \o "alias: \"U\"" \o after
           \o "] {\n  id int\n}"
    [] kind = "column" ->
         "Table users {\n  id int [" \o before \o "pk" \o after \o "]\n}"
    [] kind = "ref" ->
         "Ref: a.b > c.d [" \o before \o "swapEdge: true" \o after \o "]"
    [] kind = "area" ->
         "Area core [" \o before \o "color: \"#fff\"" \o after
           \o "] {\n  users\n}"
    [] kind = "index" ->
         "Table users {\n  id int\n  indexes {\n    id [" \o before
           \o "unique" \o after \o "]\n  }\n}"

\* 'key: value' entries with an unrecognized identifier as key and one
\* identifier, string or number token as value.
UnknownEntries == {"foo: bar", "foo: \"x\"", "foo: 12"}

\* The unknown entry stands first or last in the list.
UnknownPlaces ==
  {<<e \o ", ", "">> : e \in UnknownEntries}
    \cup {<<"", ", " \o e>> : e \in UnknownEntries}

InitUnknownSettings ==
  \E kind \in SettingsKinds, place \in UnknownPlaces \cup {<<"", "">>} :
    InitWith(SettingsText(kind, place[1], place[2]))

NextUnknownSettings ==
  \/ ScanToken
  \/ TokenizeReturn
  \/ Parse
  \/ ParseProgramLoop
  \/ TableSettingsLoop
  \/ TableBodyLoop
  \/ ColumnConstraintsLoop
  \/ IndexesLoop
  \/ IndexSettingsLoop
  \/ RefSettingsLoop
  \/ AreaSettingsLoop
  \/ AreaBodyLoop
  \/ Lower

SpecUnknownSettings == InitUnknownSettings /\ [][NextUnknownSettings]_vars

\* C23: in every bracketed settings list (table, column, ref, area, index)
\* an entry 'key: value' whose key is an unrecognized identifier and whose
\* value is a single string, number or identifier token is skipped without
\* recording a diagnostic, and the recognized entries of the same list take
\* effect exactly as if the unknown entry were absent (blanked out).
C23_UnknownSettingIsSkipped ==
  \A kind \in SettingsKinds, place \in UnknownPlaces :
    (Returned /\ airDmlText = SettingsText(kind, place[1], place[2]))
      => LET absent == parse(tokenize(SettingsText(kind, Blank(place[1]),
                                                   Blank(place[2]))).tokens)
         IN  /\ parser.errors = <<>>
             /\ absent.errors = <<>>
             /\ ProgramContent(parser.program) = ProgramContent(absent.program)

\* A Ref whose settings list opens with an unknown entry has been parsed:
\* swapEdge is set, nothing else is, and no diagnostic was recorded.
C23_Witness ==
  /\ Returned
  /\ airDmlText = SettingsText("ref", "foo: \"x\", ", "")
  /\ parser.errors = <<>>
  /\ Len(parser.program.refs) = 1
  /\ parser.program.refs[1].settings =
       [EmptyRefSettings EXCEPT !.swapEdge = Some(TRUE)]

(***************************************************************************)
(* Token positions.                                                        *)
(***************************************************************************)
\* C24: every token's start line and column equal the 1-indexed line and
\* column of its start offset in the source text (line = 1 + number of
\* newlines before the offset, column = 1 + distance from the preceding
\* newline or from the start of input), including tokens that come after a
\* string literal spanning several lines.
C24_TokenStartIsLineAndColumn ==
  \A i \in 1..Len(lexer.tokens) :
    /\ lexer.tokens[i].start.line
         = LineOf(airDmlText, lexer.tokens[i].start.offset)
    /\ lexer.tokens[i].start.column
         = ColumnOf(airDmlText, lexer.tokens[i].start.offset)

(***************************************************************************)
(* Names written by exportToAirDML and read back.                          *)
(***************************************************************************)
MaxName == 2

NameChars == {"a", "B", "1", "_", "-", " ", "\"", "\\", "\n"}

\* The names of at most n characters, and two reserved words: what a bare
\* or a double-quoted name of the source can hold.
RECURSIVE NamesOf(_)
NamesOf(n) ==
  IF n = 0 THEN {""}
  ELSE LET shorter == NamesOf(n - 1)
       IN  shorter \cup {s \o c : s \in shorter, c \in NameChars}

Names == NamesOf(MaxName) \cup {"note", "name"}

\* A diagram whose first table, its column and the from-endpoint of its one
\* reference carry the name n.
NameDiagram(n) ==
  [id |-> "d0", name |-> "shop", project |-> Some("shop"),
   database |-> Some("PostgreSQL"),
   tables |->
     <<NewTable(n, <<NewColumn(n, "integer", None, None, None, None, None)>>,
                <<>>),
       NewTable("posts",
                <<NewColumn("id", "integer", None, None, None, None, None)>>,
                <<>>)>>,
   references |->
     <<[id |-> "ref-" \o n \o "-" \o n \o "-posts-id",
        fromTable |-> "table-" \o n, fromColumn |-> n,
        toTable |-> "table-posts", toColumn |-> "id", type |-> "many-to-one",
        swapEdge |-> None, note |-> None, leadingComments |-> None]>>,
   areas |-> Some(<<>>), note |-> None,
   createdAt |-> Some("1000"), updatedAt |-> Some("1000")]

InitNames ==
  /\ inputDiagram \in {Some(NameDiagram(n)) : n \in Names}
  /\ pc = "export"
  /\ airDmlText = ""
  /\ lexer = NewLexer("")
  /\ parser = NewParser(<<>>)
  /\ result = NoResult
  /\ exported = None
  /\ reexported = None
  /\ heap = NewHeap
  /\ calls = <<>>

SpecNames == InitNames /\ [][NextRoundTrip]_vars

\* The exported text was read back with the name n in table-name,
\* column-name and reference-endpoint position.
ReadBackAs(res, n) ==
  /\ res.success = TRUE
  /\ res.warnings = None
  /\ Len(res.diagram[1].tables) = 2
  /\ res.diagram[1].tables[1].name = n
  /\ Len(res.diagram[1].tables[1].columns) = 1
  /\ res.diagram[1].tables[1].columns[1].name = n
  /\ Len(res.diagram[1].references) = 1
  /\ res.diagram[1].references[1].fromTable = "table-" \o n
  /\ res.diagram[1].references[1].fromColumn = n

\* C25: for every table or column name n that the parser can produce, the
\* text the serializer emits for n (bare when n consists only of
\* [A-Za-z0-9_], double-quoted otherwise) is read back by tokenizer and
\* parser as a single name equal to n in table-name, column-name and
\* reference-endpoint position.
C25_NameSurvivesExport ==
  pc \in {"reparsed", "done"}
    => ReadBackAs(result, inputDiagram[1].tables[1].name)

(***************************************************************************)
(* String escaping of exportToAirDML against the escapes of scanString.    *)
(***************************************************************************)
MaxString == 3

StringChars == {"a", "n", "\"", "\\", "\n", "'"}

RECURSIVE StringsOf(_)
StringsOf(n) ==
  IF n = 0 THEN {""}
  ELSE LET shorter == StringsOf(n - 1)
       IN  shorter \cup {s \o c : s \in shorter, c \in StringChars}

\* `"${escapeString(s)}"`, as exportToAirDML writes a string value.
QuotedLiteral(s) == "\"" \o escapeString(Some(s)) \o "\""

InitStrings == \E s \in StringsOf(MaxString) : InitWith(QuotedLiteral(s))

NextStrings == ScanToken \/ TokenizeReturn

SpecStrings == InitStrings /\ [][NextStrings]_vars

\* C26: for every string s, tokenizing the double-quoted literal built from
\* the serializer's string escaping of s yields exactly one STRING token
\* whose value is s: the escaping of backslash, double quote and newline is
\* exactly inverted by the tokenizer's escape handling.
C26_EscapeStringIsInverted ==
  \A s \in StringsOf(MaxString) :
    airDmlText = QuotedLiteral(s)
      => /\ lexer.thrown = NoError
         /\ (pc = "tokenized" \/ LexIsAtEnd(lexer))
              => /\ Len(lexer.tokens) >= 1
                 /\ lexer.tokens[1].type = "STRING"
                 /\ lexer.tokens[1].value = s
                 /\ lexer.tokens[1].end.offset = Len(airDmlText)
         /\ pc = "tokenized"
              => /\ Len(lexer.tokens) = 2
                 /\ lexer.tokens[2].type = "EOF"

\* The literal of backslash, letter n, double quote has been tokenized.
C26_Witness ==
  /\ pc = "tokenized"
  /\ airDmlText = QuotedLiteral("\\n\"")
  /\ airDmlText = "\"\\\\n\\\"\""
  /\ lexer.tokens[1].value = "\\n\""

(***************************************************************************)
(* What a LexerError carries.                                              *)
(***************************************************************************)
\* C27: each of the three fatal lexical errors (unterminated string literal,
\* unrecognized character, invalid-length color literal) carries both a
\* source position and a non-empty context excerpt of the source text.
C27_LexerErrorHasPositionAndExcerpt ==
  lexer.thrown # NoError
    => /\ lexer.thrown.position.offset \in 0..Len(airDmlText)
       /\ lexer.thrown.position.line >= 1
       /\ lexer.thrown.position.column >= 1
       /\ lexer.thrown.source # None
       /\ lexer.thrown.source[1] # ""
       /\ Contains(airDmlText, lexer.thrown.source[1])

(***************************************************************************)
(* Area membership after lowering.                                         *)
(***************************************************************************)
\* Table t and area a of a diagram agree on membership.
Agree(d, t, a) ==
  Includes(d.tables[t].areaIds, d.areas[1][a].id)
    <=> Includes(d.areas[1][a].tables, d.tables[t].id)

\* Every id an area lists is the id of a table of the diagram, and lowering
\* adds no diagnostic to those of the parser.
MembersResolve(d) ==
  /\ \A a \in 1..Len(d.areas[1]) :
       \A m \in 1..Len(d.areas[1][a].tables) :
         \E t \in 1..Len(d.tables) : d.tables[t].id = d.areas[1][a].tables[m]
  /\ parser.errors = <<>> => result.warnings = None

\* C28: after lowering, for every table T and area A of the
\* diagram, A.id is in T.areaIds if and only if T.id is in A.tables, and
\* every id in A.tables is the id of a table of the diagram: a member name
\* with no matching table adds nothing to either list and records no
\* diagnostic.
C28_MembershipAgrees ==
  Lowered =>
    LET d == result.diagram[1]
    IN  /\ \A t \in 1..Len(d.tables), a \in 1..Len(d.areas[1]) : Agree(d, t, a)
        /\ MembersResolve(d)

(***************************************************************************)
(* The token cursor of the parser.                                         *)
(***************************************************************************)
\* Texts that end anywhere: the prefixes of documents that go through every
\* loop of the parser.
CursorTexts ==
  <<"// c\nTable posts [alias: \"P\"] {\n  id int [pk, default: 0]\n"
      \o "  name varchar(10,2)\n  // k\n  indexes {\n"
      \o "    (id, name) [unique]\n  }\n}",
    "Project shop {\n  database_type: 'MySQL'\n  // c\n}",
    "Area \"Core\" [color: \"#fff\"] {\n  users\n  // c\n"
      \o "  CommonColumns: [\n    created timestamp\n  ]\n}",
    "Ref: a.b > c.d [swapEdge: true]\nstray } x">>

Prefixes(text) == {SubSeq(text, 1, k) : k \in 0..Len(text)}

InitCursor ==
  \E i \in 1..Len(CursorTexts) :
    \E text \in Prefixes(CursorTexts[i]) : InitWith(text)

SpecCursor == InitCursor /\ [][Next]_vars

\* `new Parser(tokens)` has run.
ParserExists == parser.mode # "new"

\* The cursor is on a token, at or before the one EOF token, the last.
CursorInRange(P) ==
  /\ Len(P.tokens) >= 1
  /\ P.tokens[Len(P.tokens)].type = "EOF"
  /\ \A i \in 1..(Len(P.tokens) - 1) : P.tokens[i].type # "EOF"
  /\ P.pos >= 0
  /\ P.pos <= Len(P.tokens) - 1

\* C29: in every reachable parser state the cursor satisfies
\* 0 <= pos <= index of the EOF token, it never decreases during a parse,
\* and it never advances past the EOF token, so reading the current token is
\* always defined.
C29_CursorStaysInRange ==
  /\ [](ParserExists => CursorInRange(parser))
  /\ [][ParserExists => parser'.pos >= parser.pos]_vars

\* The parser has returned with its cursor on the EOF token after consuming
\* tokens, having gone through an error recovery.
C29_Witness ==
  /\ Returned
  /\ parser.errors # <<>>
  /\ parser.pos = Len(parser.tokens) - 1
  /\ parser.pos > 0

(***************************************************************************)
(* Column defaults.                                                        *)
(***************************************************************************)
\* The default a consumer may have set on a column: none, numbers, a
\* function call, a word, a boolean.
DefaultChoices ==
  {None, Some("0"), Some("-1"), Some("now()"), Some("abc"), Some("true")}

\* A diagram of one table in one area with a common column, the table's
\* column and the common column carrying the given defaults.
DefaultDiagram(ofColumn, ofCommon) ==
  [id |-> "d0", name |-> "shop", project |-> Some("shop"),
   database |-> Some("PostgreSQL"),
   tables |->
     <<NewTable("users",
                <<[NewColumn("id", "integer", None, Some(TRUE), None, None,
                             None) EXCEPT !.default = ofColumn]>>,
                <<"area-Core">>)>>,
   references |-> <<>>,
   areas |->
     Some(<<[NewArea("Core", <<"table-users">>) EXCEPT
               !.commonColumns =
                 Some(<<[NewColumn("created", "timestamp", None, None, None,
                                   None, None) EXCEPT
                           !.default = ofCommon]>>)]>>),
   note |-> None, createdAt |-> Some("1000"), updatedAt |-> Some("1000")]

InitDefaults ==
  /\ inputDiagram \in {Some(DefaultDiagram(c, a)) :
                         c \in DefaultChoices, a \in DefaultChoices}
  /\ pc = "export"
  /\ airDmlText = ""
  /\ lexer = NewLexer("")
  /\ parser = NewParser(<<>>)
  /\ result = NoResult
  /\ exported = None
  /\ reexported = None
  /\ heap = NewHeap
  /\ calls = <<>>

SpecDefaults == InitDefaults /\ [][NextRoundTrip]_vars

\* No column of a diagram, of a table or of an area's CommonColumns, has a
\* default.
NoDefaults(d) ==
  /\ \A t \in 1..Len(d.tables) :
       \A c \in 1..Len(d.tables[t].columns) :
         d.tables[t].columns[c].default = None
  /\ \A a \in 1..Len(d.areas[1]) :
       d.areas[1][a].commonColumns # None
         => \A c \in 1..Len(d.areas[1][a].commonColumns[1]) :
              d.areas[1][a].commonColumns[1][c].default = None

\* The text written for a default, when there is one.
DefaultWritten(text, default) ==
  default # None
    => Contains(text, "[pk, default: " \o formatDefaultValue(default[1]) \o "]")

============================================================================
